---- MODULE Spec2Model ----
(***************************************************************************)
(* A model of the browser automation engine of screenshot-mcp.             *)
(*                                                                         *)
(*   SpecPool  the resource pool manager of MCPScreenshotServer            *)
(*             (src/mcp-screenshot.js): getBrowserInstance and             *)
(*             getBrowserContext called concurrently, the background       *)
(*             sweep, browser deaths and the clock.                        *)
(*   SpecMcp   capture requests of MCPScreenshotServer from page.goto on:  *)
(*             handleToolsCall, captureScreenshots, handleLoginWithCache,  *)
(*             handleLogin, the session cache, the sweep and the clock.    *)
(*   SpecDev   one page capture of DevScreenshotTool (src/unnamed/part_002)*)
(*             screenshotPage, aiDetectAndHandleTabs and loginOnPage.      *)
(*   SpecInter performInteractions of MCPScreenshotServer: the steps of an  *)
(*             interaction list, each succeeding or throwing.              *)
(*   SpecFind  findElement of MCPScreenshotServer: the cascade of locator  *)
(*             strategies; SpecFindLive adds that every wait times out.    *)
(*   SpecScroll the scroll and full-page screenshots of captureScreenshots:*)
(*             the page is measured, the steps are planned and taken.      *)
(*   SpecReady waitForContent of MCPScreenshotServer: the readiness checks *)
(*             raced against the ceiling of the mode and page type.        *)
(*   SpecNav   navigatePages and generateBaseName of MCPScreenshotServer:  *)
(*             the pages of a navigation flow and their screenshot names.  *)
(*   SpecCtx   the pooled browser of the default key and the contexts     *)
(*             that concurrent requests acquire from it, with the sweep.   *)
(*   SpecDown  the same requests with the shutdown of the process on a     *)
(*             signal or an uncaught exception.                            *)
(*   SpecTabs  the tab loops of DevScreenshotTool: the click strategies    *)
(*             of each detected region.                                    *)
(*   SpecCrawl crawlAndScreenshot and shouldVisitUrl of DevScreenshotTool. *)
(*   SpecNavLive and SpecDevLive add to SpecNav and SpecDev that every     *)
(*             await resolves or rejects.                                  *)
(*                                                                         *)
(* Every await of the source is a point where another call, the sweep or   *)
(* the environment may run; the code between two awaits is one action.     *)
(***************************************************************************)
EXTENDS Integers, Sequences, FiniteSets, TLC

(***************************************************************************)
(* Program constants.                                                      *)
(***************************************************************************)
\* this.maxPoolSize
maxPoolSize == 3
\* this.sessionTTL
sessionTTL == 30 * 60 * 1000
\* this.browserTTL
browserTTL == 10 * 60 * 1000
\* one advance of Date.now(): ten minutes, so that an age equal to the idle
\* timeout and an age beyond it are both reached
TickMs == 10 * 60 * 1000
\* one advance of Date.now() while requests run: half the session lifetime, so
\* that a session is looked up at ages below, equal to and beyond sessionTTL
McpTickMs == 15 * 60 * 1000

(***************************************************************************)
(* Bounds of the model.                                                    *)
(***************************************************************************)
\* concurrent callers of the pool manager
NCallers == 2
\* browser pool keys 1..NKeys: one more than the cap, so that a request can
\* name a key the full pool does not hold
NKeys == maxPoolSize + 1
\* context pool keys 1..NCtxKeys
NCtxKeys == 1
\* browser processes launched in one run
MaxLaunch == maxPoolSize + 1
\* contexts created in one run
MaxContexts == 2
\* clock advances in one run of the pool
MaxPoolTicks == 2
\* browser processes that die in one run
MaxDeaths == 1
\* calls of the pool manager begun in one run
\* tab regions detected on a page, and the largest configured maxTabsPerPage
MaxTabs == 3
\* the largest maxPages and the maxDepth of a crawl
MaxCrawlPages == 4
CrawlMaxDepth == 2
\* the largest maxDepth a navigation flow asks for
MaxRequestedDepth == 1
MaxTabCap == 2

MaxCalls == 5
\* principals that requests log in as
NUsers == 2
\* capture requests in one run, concurrent
NReqs == 2
\* sessions the site issues in one run
MaxLogins == 2
\* clock advances in one run of the capture requests
MaxMcpTicks == 3
\* form submissions in one page capture of DevScreenshotTool
MaxForms == 2
\* interactions in one list handed to performInteractions
MaxSteps == 3

Callers == 1..NCallers
Keys == 1..NKeys
CtxKeys == 1..NCtxKeys

VARIABLES
  now,           \* Date.now()
  browserPool,   \* this.browserPool: entries in insertion order
  contextPool,   \* this.contextPool: entries in insertion order
  launched,      \* browser processes launched so far; the ids are 1..launched
  openBrowsers,  \* browser processes that are running
  ctxOwner,      \* contexts created so far: ctxOwner[i] is the browser of context i
  openContexts,  \* contexts that have not been closed
  deaths,        \* browser processes that died so far
  started,       \* calls of the pool manager begun so far
  calls,         \* each caller's position in getBrowserInstance / getBrowserContext
  sessionCache,  \* this.sessionCache: session key -> cached session
  jars,          \* cookies and localStorage of each principal's browsing context
  issued,        \* sessions the site has issued so far
  reqs,          \* each capture request's position in handleToolsCall
  dev,           \* the page capture of DevScreenshotTool.screenshotPage
  inter,         \* a call of performInteractions
  find,          \* a call of findElement
  plan,          \* the scroll loop of captureScreenshots
  ready,         \* a call of waitForContent
  nav,           \* a call of navigatePages
  tabs,          \* the tab loop of detectAndHandleTabs / aiDetectAndHandleTabs
  crawl,         \* a crawl of DevScreenshotTool.crawlAndScreenshot
  proc           \* the server process: running, shutting down or exited

vars == <<now, browserPool, contextPool, launched, openBrowsers, ctxOwner,
          openContexts, deaths, started, calls, sessionCache, jars, issued, reqs, dev,
          inter, find, plan, ready, nav, tabs, crawl, proc>>

\* the state of the calls of performInteractions, findElement and of the
\* scroll loop
lateVars == <<tabs, crawl, proc>>
restVars == <<ready, nav, lateVars>>
engineVars == <<inter, find, plan, restVars>>

\* the state of the capture requests and of the session cache
mcpVars == <<sessionCache, jars, issued, reqs>>

\* the state of the browser and context pools and of their callers
poolVars == <<browserPool, contextPool, launched, openBrowsers, ctxOwner,
              openContexts, deaths, started, calls>>

(***************************************************************************)
(* Map helpers: a JavaScript Map is a sequence of entries in insertion     *)
(* order; set on a new key appends, set on an existing key replaces in     *)
(* place, delete removes.                                                  *)
(***************************************************************************)
RECURSIVE MapDelete(_, _)
MapDelete(m, k) ==
  IF m = <<>> THEN <<>>
  ELSE IF Head(m).key = k THEN MapDelete(Tail(m), k)
  ELSE <<Head(m)>> \o MapDelete(Tail(m), k)

MapHas(m, k) == \E i \in 1..Len(m) : m[i].key = k

MapIndex(m, k) == CHOOSE i \in 1..Len(m) : m[i].key = k

MapGet(m, k) == m[MapIndex(m, k)]

MapSet(m, k, e) ==
  IF MapHas(m, k) THEN [m EXCEPT ![MapIndex(m, k)] = e]
  ELSE Append(m, e)

MapKeys(m) == {m[i].key : i \in 1..Len(m)}

\* Keys are names: a key held by no entry and no call in flight behaves like
\* any other such key, so a call introduces only the smallest of them.
KeysInUse == MapKeys(browserPool) \cup
  {calls[c].key : c \in {d \in Callers : calls[d].op = "browser" /\ calls[d].pc # "done"}}

CallableKeys == {k \in Keys : k \in KeysInUse \/ \A j \in 1..(k - 1) : j \in KeysInUse}

IdleCall == [pc |-> "idle", op |-> "none", key |-> 0, ent |-> 0, arg |-> 0, ret |-> 0, how |-> "none"]

(***************************************************************************)
(* getBrowserInstance                                                      *)
(***************************************************************************)
\* browsers.reduce((oldest, current) =>
\*   current[1].lastUsed < oldest[1].lastUsed ? current : oldest)
\* the index of the first entry, in insertion order, with the smallest lastUsed
RECURSIVE ReduceOldest(_, _, _)
ReduceOldest(m, oldest, i) ==
  IF i > Len(m) THEN oldest
  ELSE ReduceOldest(m, IF m[i].lastUsed < m[oldest].lastUsed THEN i ELSE oldest, i + 1)

OldestBrowserFirstEntry(m) == 1

OldestBrowser(m) == ReduceOldest(m, 1, 2)

\* the pool-limit check: this.browserPool.size >= this.maxPoolSize
AtPoolLimit(m) == Len(m) >= maxPoolSize

\* Lines 428-457, run without suspension on pool m: at the limit the oldest
\* entry is refreshed and its browser returned, otherwise the launch begins.
AfterLookup(c, key, m) ==
  IF AtPoolLimit(m)
  THEN LET i == OldestBrowser(m) IN
       /\ browserPool' = [m EXCEPT ![i].lastUsed = now]
       /\ calls' = [calls EXCEPT ![c] =
            [pc |-> "done", op |-> "browser", key |-> key, ent |-> 0, arg |-> 0,
             ret |-> m[i].browser, how |-> "reassigned"]]
  ELSE /\ browserPool' = m
       /\ calls' = [calls EXCEPT ![c] =
            [pc |-> "launch", op |-> "browser", key |-> key, ent |-> 0, arg |-> 0,
             ret |-> 0, how |-> "none"]]

\* getBrowserInstance(key) up to its first await
GetBrowserInstance(c, key) ==
  /\ calls[c].pc \in {"idle", "done"}
  /\ started < MaxCalls
  /\ started' = started + 1
  /\ IF MapHas(browserPool, key)
     THEN \* await browserData.browser.version()
          /\ calls' = [calls EXCEPT ![c] =
               [pc |-> "probe", op |-> "browser", key |-> key,
                ent |-> MapGet(browserPool, key).browser, arg |-> 0, ret |-> 0, how |-> "none"]]
          /\ UNCHANGED browserPool
     ELSE AfterLookup(c, key, browserPool)
  /\ UNCHANGED <<now, contextPool, launched, openBrowsers, ctxOwner, openContexts, deaths>>
  /\ UNCHANGED <<mcpVars, dev, engineVars>>

\* browserData.lastUsed = Date.now() on the entry object captured before the
\* await: it is still in the pool only if an entry holds the same browser
TouchBrowser(m, b) ==
  [i \in 1..Len(m) |-> IF m[i].browser = b THEN [m[i] EXCEPT !.lastUsed = now] ELSE m[i]]

\* version() resolved: the browser is alive
ProbeBrowserAlive(c) ==
  /\ calls[c].pc = "probe" /\ calls[c].op = "browser"
  /\ calls[c].ent \in openBrowsers
  /\ browserPool' = TouchBrowser(browserPool, calls[c].ent)
  /\ calls' = [calls EXCEPT ![c].pc = "done", ![c].ret = calls[c].ent, ![c].how = "reused"]
  /\ UNCHANGED <<now, contextPool, launched, openBrowsers, ctxOwner, openContexts, deaths, started>>
  /\ UNCHANGED <<mcpVars, dev, engineVars>>

\* version() rejected: the catch deletes the key, then lines 428-457 run
ProbeBrowserDead(c) ==
  /\ calls[c].pc = "probe" /\ calls[c].op = "browser"
  /\ calls[c].ent \notin openBrowsers
  /\ AfterLookup(c, calls[c].key, MapDelete(browserPool, calls[c].key))
  /\ UNCHANGED <<now, contextPool, launched, openBrowsers, ctxOwner, openContexts, deaths, started>>
  /\ UNCHANGED <<mcpVars, dev, engineVars>>

\* chromium.launch resolved: the new browser is stored under the key
LaunchDone(c) ==
  /\ calls[c].pc = "launch"
  /\ launched < MaxLaunch
  /\ launched' = launched + 1
  /\ openBrowsers' = openBrowsers \cup {launched + 1}
  /\ browserPool' = MapSet(browserPool, calls[c].key,
       [key |-> calls[c].key, browser |-> launched + 1, lastUsed |-> now])
  /\ calls' = [calls EXCEPT ![c].pc = "done", ![c].ret = launched + 1, ![c].how = "created"]
  /\ UNCHANGED <<now, contextPool, ctxOwner, openContexts, deaths, started>>
  /\ UNCHANGED <<mcpVars, dev, engineVars>>

(***************************************************************************)
(* getBrowserContext                                                       *)
(***************************************************************************)
TouchContext(m, x) ==
  [i \in 1..Len(m) |-> IF m[i].context = x THEN [m[i] EXCEPT !.lastUsed = now] ELSE m[i]]

\* getBrowserContext(browser, viewport, sessionKey) up to its first await;
\* key stands for the contextKey string built from sessionKey and viewport
GetBrowserContext(c, b, key) ==
  /\ calls[c].pc \in {"idle", "done"}
  /\ started < MaxCalls
  /\ started' = started + 1
  /\ calls' = [calls EXCEPT ![c] =
       [pc |-> IF MapHas(contextPool, key) THEN "probe" ELSE "newContext",
        op |-> "context", key |-> key,
        ent |-> IF MapHas(contextPool, key) THEN MapGet(contextPool, key).context ELSE 0,
        arg |-> b, ret |-> 0, how |-> "none"]]
  /\ UNCHANGED <<now, browserPool, contextPool, launched, openBrowsers, ctxOwner, openContexts, deaths>>
  /\ UNCHANGED <<mcpVars, dev, engineVars>>

\* context.pages() resolved
ProbeContextAlive(c) ==
  /\ calls[c].pc = "probe" /\ calls[c].op = "context"
  /\ calls[c].ent \in openContexts
  /\ contextPool' = TouchContext(contextPool, calls[c].ent)
  /\ calls' = [calls EXCEPT ![c].pc = "done", ![c].ret = calls[c].ent, ![c].how = "reused"]
  /\ UNCHANGED <<now, browserPool, launched, openBrowsers, ctxOwner, openContexts, deaths, started>>
  /\ UNCHANGED <<mcpVars, dev, engineVars>>

\* context.pages() rejected: the catch deletes the key, browser.newContext begins
ProbeContextDead(c) ==
  /\ calls[c].pc = "probe" /\ calls[c].op = "context"
  /\ calls[c].ent \notin openContexts
  /\ contextPool' = MapDelete(contextPool, calls[c].key)
  /\ calls' = [calls EXCEPT ![c].pc = "newContext"]
  /\ UNCHANGED <<now, browserPool, launched, openBrowsers, ctxOwner, openContexts, deaths, started>>
  /\ UNCHANGED <<mcpVars, dev, engineVars>>

\* browser.newContext resolved: the new context is stored under the key
NewContextDone(c) ==
  /\ calls[c].pc = "newContext"
  /\ calls[c].arg \in openBrowsers
  /\ Len(ctxOwner) < MaxContexts
  /\ ctxOwner' = Append(ctxOwner, calls[c].arg)
  /\ openContexts' = openContexts \cup {Len(ctxOwner) + 1}
  /\ contextPool' = MapSet(contextPool, calls[c].key,
       [key |-> calls[c].key, context |-> Len(ctxOwner) + 1, lastUsed |-> now])
  /\ calls' = [calls EXCEPT ![c].pc = "done", ![c].ret = Len(ctxOwner) + 1, ![c].how = "created"]
  /\ UNCHANGED <<now, browserPool, launched, openBrowsers, deaths, started>>
  /\ UNCHANGED <<mcpVars, dev, engineVars>>

\* browser.newContext rejected (the browser is closed): the error propagates
NewContextThrows(c) ==
  /\ calls[c].pc = "newContext"
  /\ calls[c].arg \notin openBrowsers
  /\ calls' = [calls EXCEPT ![c].pc = "done", ![c].how = "threw"]
  /\ UNCHANGED <<now, browserPool, contextPool, launched, openBrowsers, ctxOwner, openContexts, deaths, started>>
  /\ UNCHANGED <<mcpVars, dev, engineVars>>

(***************************************************************************)
(* Session cache (mcp-screenshot.js)                                       *)
(***************************************************************************)
Users == 1..NUsers
Reqs == 1..NReqs
NoUser == 0

\* the host of every page of the site under capture
Domain == <<"a">>

\* the username of principal u
UserName(u) == [i \in 1..u |-> "u"]

\* `${domain}_${username}`
SessionKey(domain, username) == domain \o <<"_">> \o username

SessionKeys == {SessionKey(Domain, UserName(u)) : u \in Users}

\* sessionCache.get of a key that has no entry
NoSession == [cookies |-> 0, storage |-> 0, timestamp |-> 0 - 1]

\* the comparison with <= in place of <: an entry of age sessionTTL passes
SessionFreshInclusive(cached) == (now - cached.timestamp) <= sessionTTL

\* (Date.now() - cached.timestamp) < this.sessionTTL
SessionFresh(cached) == (now - cached.timestamp) < sessionTTL

\* the value getCachedSession returns
GetCachedSession(cache, key) ==
  IF cache[key] # NoSession /\ SessionFresh(cache[key]) THEN cache[key] ELSE NoSession

\* the cache getCachedSession leaves: an expired entry is deleted
CacheAfterGet(cache, key) ==
  IF cache[key] # NoSession /\ ~SessionFresh(cache[key])
  THEN [cache EXCEPT ![key] = NoSession]
  ELSE cache

\* cacheSession without timestamp: Date.now()
CacheSessionNoStamp(cache, key, cookies, storage) ==
  [cache EXCEPT ![key] = [cookies |-> cookies, storage |-> storage, timestamp |-> 0]]

\* cacheSession
CacheSession(cache, key, cookies, storage) ==
  [cache EXCEPT ![key] = [cookies |-> cookies, storage |-> storage, timestamp |-> now]]

\* the session loop of cleanupExpiredSessions
SweepSessions(cache) ==
  [k \in DOMAIN cache |->
     IF cache[k] # NoSession /\ now - cache[k].timestamp > sessionTTL
     THEN NoSession ELSE cache[k]]

(***************************************************************************)
(* The sweep, the environment and the clock                                *)
(***************************************************************************)
\* the entries a sweep loop keeps: those not idle longer than the timeout
RECURSIVE KeepFresh(_, _)
KeepFresh(m, ttl) ==
  IF m = <<>> THEN <<>>
  ELSE IF now - Head(m).lastUsed > ttl THEN KeepFresh(Tail(m), ttl)
  ELSE <<Head(m)>> \o KeepFresh(Tail(m), ttl)

IdleBrowsers == {browserPool[i].browser : i \in {j \in 1..Len(browserPool) :
                   now - browserPool[j].lastUsed > browserTTL}}

IdleContexts == {contextPool[i].context : i \in {j \in 1..Len(contextPool) :
                   now - contextPool[j].lastUsed > browserTTL}}

\* closing a browser closes its contexts
ClosedWith(bs) == {i \in 1..Len(ctxOwner) : ctxOwner[i] \in bs}

\* cleanupExpiredSessions, run by the interval timer
PoolSweep ==
  /\ browserPool' = KeepFresh(browserPool, browserTTL)
  /\ contextPool' = KeepFresh(contextPool, browserTTL)
  /\ openBrowsers' = openBrowsers \ IdleBrowsers
  /\ openContexts' = (openContexts \ IdleContexts) \ ClosedWith(IdleBrowsers)

\* a browser process dies (crash, kill)
BrowserDies(b) ==
  /\ b \in openBrowsers
  /\ deaths < MaxDeaths
  /\ deaths' = deaths + 1
  /\ openBrowsers' = openBrowsers \ {b}
  /\ openContexts' = openContexts \ ClosedWith({b})
  /\ UNCHANGED <<now, browserPool, contextPool, launched, ctxOwner, started, calls>>
  /\ UNCHANGED <<mcpVars, dev, engineVars>>

PoolTick ==
  /\ now < MaxPoolTicks * TickMs
  /\ now' = now + TickMs
  /\ UNCHANGED <<browserPool, contextPool, launched, openBrowsers, ctxOwner, openContexts, deaths, started, calls>>
  /\ UNCHANGED <<mcpVars, dev, engineVars>>

CleanupExpiredSessions ==
  /\ sessionCache' = SweepSessions(sessionCache)
  /\ PoolSweep
  /\ UNCHANGED <<now, launched, ctxOwner, deaths, started, calls, jars, issued, reqs, dev,
               engineVars>>

PoolInit ==
  /\ now = 0
  /\ browserPool = <<>>
  /\ contextPool = <<>>
  /\ launched = 0
  /\ openBrowsers = {}
  /\ ctxOwner = <<>>
  /\ openContexts = {}
  /\ deaths = 0
  /\ started = 0
  /\ calls = [c \in Callers |-> IdleCall]


(***************************************************************************)
(* Pages                                                                   *)
(***************************************************************************)
RequestedUrl == "/dashboard"

\* a page is its URL and whether it shows a signed-in session (user menu,
\* logout control)
Page(url, ind) == [url |-> url, ind |-> ind]

NoPage == Page("about:blank", FALSE)

Pages ==
  {Page(u, i) : u \in {"/dashboard", "/home"}, i \in BOOLEAN}
    \cup {Page("/login", FALSE), Page("/error", FALSE)}

\* currentUrl.includes('/login') || includes('/signin') || includes('/auth')
IsLoginUrl(url) == url \in {"/login", "/signin", "/auth"}

\* currentUrl.includes('/error') || includes('/404') || includes('/403')
IsErrorUrl(url) == url \in {"/error", "/404", "/403"}

\* !currentUrl.startsWith(url) && !url.startsWith(currentUrl)
WasRedirected(currentUrl, url) == currentUrl # url

HasSessionIndicator(page) == page.ind

(***************************************************************************)
(* A capture request: handleToolsCall from page.goto on, captureScreenshots*)
(* handleLoginWithCache and handleLogin.  The browser and the context of   *)
(* the request come from the pools modelled above.                         *)
(***************************************************************************)
IdleReq ==
  [pc |-> "idle", user |-> NoUser, page |-> NoPage, site |-> 0,
   cached |-> NoSession, lookup |-> "none", forms |-> 0, via |-> "none",
   shots |-> <<>>, status |-> "none", reason |-> "none", resp |-> <<>>,
   open |-> FALSE]

Shot(kind, page) == [kind |-> kind, from |-> page.url]

\* principals are interchangeable: a request names no principal, one already
\* named, or the first one not named yet
CallableUsers ==
  {NoUser} \cup {u \in Users : \A v \in 1..(u - 1) : \E q \in Reqs : reqs[q].user = v}

\* the request is sent; the handler reaches page.goto(url)
StartRequest(r, u) ==
  /\ reqs[r].pc = "idle"
  /\ \A q \in Reqs : q < r => reqs[q].pc # "idle"
  /\ reqs' = [reqs EXCEPT ![r] = [IdleReq EXCEPT !.pc = "goto", !.user = u,
                                                  !.open = TRUE]]
  /\ UNCHANGED <<now, sessionCache, jars, issued>>
  /\ UNCHANGED <<poolVars, dev, engineVars>>

\* handleLoginWithCache up to its first await: the cached session is looked up
EnterLogin(r, rec, site) ==
  LET key == SessionKey(Domain, UserName(rec.user))
      got == GetCachedSession(sessionCache, key)
  IN /\ sessionCache' = CacheAfterGet(sessionCache, key)
     /\ reqs' = [reqs EXCEPT ![r] =
                   [rec EXCEPT !.site = site,
                               !.cached = got,
                               !.lookup = IF got # NoSession THEN "hit"
                                          ELSE IF sessionCache[key] # NoSession THEN "expired"
                                          ELSE "miss",
                               !.pc = IF got # NoSession THEN "restore" ELSE "form"]]

\* captureScreenshots up to its first await
CaptureEntry(r, rec) ==
  IF WasRedirected(rec.page.url, RequestedUrl) /\ IsLoginUrl(rec.page.url)
  THEN IF rec.user # NoUser
       THEN EnterLogin(r, rec, 2)
       ELSE /\ reqs' = [reqs EXCEPT ![r] = [rec EXCEPT !.pc = "diag", !.status = "login_required"]]
            /\ UNCHANGED sessionCache
  ELSE IF WasRedirected(rec.page.url, RequestedUrl) /\ IsErrorUrl(rec.page.url)
  THEN /\ reqs' = [reqs EXCEPT ![r] = [rec EXCEPT !.pc = "diag", !.status = "error_page"]]
       /\ UNCHANGED sessionCache
  ELSE /\ reqs' = [reqs EXCEPT ![r] = [rec EXCEPT !.pc = "capture"]]
       /\ UNCHANGED sessionCache

\* page.goto and waitForContent return; the login check of handleToolsCall
NavDone(r, landing) ==
  /\ reqs[r].pc = "goto"
  /\ LET rec == [reqs[r] EXCEPT !.page = landing]
     IN IF rec.user # NoUser /\ IsLoginUrl(landing.url)
        THEN EnterLogin(r, rec, 1)
        ELSE CaptureEntry(r, rec)
  /\ UNCHANGED <<now, jars, issued>>
  /\ UNCHANGED <<poolVars, dev, engineVars>>

\* handleLoginWithCache returned true
AfterLoginOk(rec, via) ==
  [rec EXCEPT !.via = via, !.cached = NoSession, !.lookup = "none",
              !.pc = IF rec.site = 1 THEN "postLogin" ELSE "renav"]

\* a handler that answers without closing its page
PageLeftOpen(rec) == rec

\* await page.close() of handleToolsCall, on the success path and in the catch
PageClose(rec) == [rec EXCEPT !.page = NoPage, !.open = FALSE]

\* the catch of handleToolsCall: the page is closed and an error response
\* with the message of the error is sent; it carries no screenshot
ErrorResponse(rec, reason) ==
  [PageClose(rec) EXCEPT !.pc = "responded", !.status = "error", !.reason = reason,
                         !.resp = <<>>]

\* handleLoginWithCache threw
AfterLoginThrew(rec) ==
  IF rec.site = 1
  THEN ErrorResponse([rec EXCEPT !.lookup = "none"], "login")
  ELSE [rec EXCEPT !.pc = "failshot", !.lookup = "none"]

\* a restore of the cookies alone
RestoredJarCookiesOnly(cached) == [cookies |-> cached.cookies, storage |-> 0]

\* context().addCookies(cached.cookies) and localStorage.setItem of every
\* cached storage entry
RestoredJar(cached) == [cookies |-> cached.cookies, storage |-> cached.storage]

\* the cached cookies and storage are put back, the page reloads to a
\* non-login URL
RestoreOk(r, landing) ==
  /\ reqs[r].pc = "restore"
  /\ ~IsLoginUrl(landing.url)
  /\ jars' = [jars EXCEPT ![reqs[r].user] = RestoredJar(reqs[r].cached)]
  /\ reqs' = [reqs EXCEPT ![r] = AfterLoginOk([reqs[r] EXCEPT !.page = landing], "restored")]
  /\ UNCHANGED <<now, sessionCache, issued>>
  /\ UNCHANGED <<poolVars, dev, engineVars>>

\* the cached cookies and storage are put back, the reload stays on the login
\* page: handleLogin starts
RestoreStillLogin(r) ==
  /\ reqs[r].pc = "restore"
  /\ jars' = [jars EXCEPT ![reqs[r].user] = RestoredJar(reqs[r].cached)]
  /\ reqs' = [reqs EXCEPT ![r] = [reqs[r] EXCEPT !.page = Page("/login", FALSE), !.pc = "form"]]
  /\ UNCHANGED <<now, sessionCache, issued>>
  /\ UNCHANGED <<poolVars, dev, engineVars>>

\* addCookies, evaluate or reload throws (the reload may have moved the page
\* before it timed out): logged, handleLogin starts
RestoreThrows(r, landing) ==
  /\ reqs[r].pc = "restore"
  /\ landing \in {reqs[r].page, Page(RequestedUrl, FALSE)}
  /\ reqs' = [reqs EXCEPT ![r] = [reqs[r] EXCEPT !.page = landing, !.cached = NoSession,
                                                 !.pc = "form"]]
  /\ UNCHANGED <<now, sessionCache, jars, issued>>
  /\ UNCHANGED <<poolVars, dev, engineVars>>

\* handleLogin: waitForSelector times out
FormMissing(r) ==
  /\ reqs[r].pc = "form"
  /\ reqs' = [reqs EXCEPT ![r] = AfterLoginThrew(reqs[r])]
  /\ UNCHANGED <<now, sessionCache, jars, issued>>
  /\ UNCHANGED <<poolVars, dev, engineVars>>

\* handleLogin: the form is filled and submitted
FormSubmit(r) ==
  /\ reqs[r].pc = "form"
  /\ reqs' = [reqs EXCEPT ![r] = [reqs[r] EXCEPT !.forms = @ + 1, !.pc = "submitted"]]
  /\ UNCHANGED <<now, sessionCache, jars, issued>>
  /\ UNCHANGED <<poolVars, dev, engineVars>>

\* the verdict of handleLogin on what follows the submit: waitForNavigation
\* throws when no navigation is observed, then only the URL is looked at
HandleLoginVerdict(navEvent, url) ==
  IF ~navEvent THEN "failed"
  ELSE IF IsLoginUrl(url) THEN "failed"
  ELSE "succeeded"

\* the site answers the submit: the page it shows, whether a navigation was
\* observed by waitForNavigation, whether the page shows an error message.
\* A site that leaves the login page has signed the principal in.
SubmitOutcome(r, landing, navEvent, errText) ==
  /\ reqs[r].pc = "submitted"
  /\ IF IsLoginUrl(landing.url)
     THEN UNCHANGED <<jars, issued>>
     ELSE /\ issued < MaxLogins
          /\ issued' = issued + 1
          /\ jars' = [jars EXCEPT ![reqs[r].user] = [cookies |-> issued + 1, storage |-> issued + 1]]
  /\ LET rec == [reqs[r] EXCEPT !.page = landing]
     IN reqs' = [reqs EXCEPT ![r] =
                   IF HandleLoginVerdict(navEvent, landing.url) = "succeeded"
                   THEN [rec EXCEPT !.pc = "cacheRead"]
                   ELSE AfterLoginThrew(rec)]
  /\ UNCHANGED <<now, sessionCache>>
  /\ UNCHANGED <<poolVars, dev, engineVars>>

\* handleLoginWithCache after a successful handleLogin: cookies and storage
\* are read and cached
CacheWrite(r) ==
  /\ reqs[r].pc = "cacheRead"
  /\ sessionCache' = CacheSession(sessionCache, SessionKey(Domain, UserName(reqs[r].user)),
                                  jars[reqs[r].user].cookies, jars[reqs[r].user].storage)
  /\ reqs' = [reqs EXCEPT ![r] = AfterLoginOk(reqs[r], "form")]
  /\ UNCHANGED <<now, jars, issued>>
  /\ UNCHANGED <<poolVars, dev, engineVars>>

\* context().cookies() or evaluate throws: logged, nothing cached
CacheReadThrows(r) ==
  /\ reqs[r].pc = "cacheRead"
  /\ reqs' = [reqs EXCEPT ![r] = AfterLoginOk(reqs[r], "form")]
  /\ UNCHANGED <<now, sessionCache, jars, issued>>
  /\ UNCHANGED <<poolVars, dev, engineVars>>

\* handleToolsCall: waitForContent after the login returns, the page may have
\* moved meanwhile; captureScreenshots starts
PostLoginReady(r, landing) ==
  /\ reqs[r].pc = "postLogin"
  /\ landing \in {reqs[r].page, Page("/login", FALSE)}
  /\ CaptureEntry(r, [reqs[r] EXCEPT !.page = landing])
  /\ UNCHANGED <<now, jars, issued>>
  /\ UNCHANGED <<poolVars, dev, engineVars>>

\* captureScreenshots: page.goto(url) after the login returns
RenavDone(r, landing) ==
  /\ reqs[r].pc = "renav"
  /\ reqs' = [reqs EXCEPT ![r] = [reqs[r] EXCEPT !.page = landing, !.pc = "capture"]]
  /\ UNCHANGED <<now, sessionCache, jars, issued>>
  /\ UNCHANGED <<poolVars, dev, engineVars>>

\* captureScreenshots: the login_failed screenshot is taken, the error is
\* rethrown and handleToolsCall answers with an error
FailShotDone(r) ==
  /\ reqs[r].pc = "failshot"
  /\ reqs' = [reqs EXCEPT ![r] =
                ErrorResponse([reqs[r] EXCEPT !.shots = <<Shot("login_failed", reqs[r].page)>>],
                              "login")]
  /\ UNCHANGED <<now, sessionCache, jars, issued>>
  /\ UNCHANGED <<poolVars, dev, engineVars>>

DiagShotsWithTop(rec) ==
  <<Shot(IF rec.status = "login_required" THEN "login_page" ELSE "error_page", rec.page),
    Shot("top", rec.page)>>

\* the screenshots array captureScreenshots returns with the status
\* login_required or error_page
DiagShots(rec) ==
  <<Shot(IF rec.status = "login_required" THEN "login_page" ELSE "error_page", rec.page)>>

\* captureScreenshots: the login_page or error_page screenshot is taken and
\* returned; handleToolsCall sends the screenshots
DiagDone(r) ==
  /\ reqs[r].pc = "diag"
  /\ reqs' = [reqs EXCEPT ![r] =
                [PageClose(reqs[r]) EXCEPT !.pc = "responded",
                                !.shots = DiagShots(reqs[r]),
                                !.resp = DiagShots(reqs[r])]]
  /\ UNCHANGED <<now, sessionCache, jars, issued>>
  /\ UNCHANGED <<poolVars, dev, engineVars>>

\* captureScreenshots: the scroll and full-page screenshots are taken and
\* returned
CaptureDone(r) ==
  /\ reqs[r].pc = "capture"
  /\ reqs' = [reqs EXCEPT ![r] =
                [PageClose(reqs[r]) EXCEPT !.pc = "responded", !.status = "ok",
                                !.shots = <<Shot("top", reqs[r].page), Shot("full", reqs[r].page)>>,
                                !.resp = <<Shot("top", reqs[r].page), Shot("full", reqs[r].page)>>]]
  /\ UNCHANGED <<now, sessionCache, jars, issued>>
  /\ UNCHANGED <<poolVars, dev, engineVars>>

\* captureScreenshots: a screenshot or an evaluate throws, before or after the
\* top screenshot was pushed; the catch rethrows and handleToolsCall answers
\* with an error
CaptureThrows(r, afterTop) ==
  /\ reqs[r].pc = "capture"
  /\ reqs' = [reqs EXCEPT ![r] =
                ErrorResponse([reqs[r] EXCEPT !.shots = IF afterTop
                                                        THEN <<Shot("top", reqs[r].page)>>
                                                        ELSE <<>>],
                              "capture")]
  /\ UNCHANGED <<now, sessionCache, jars, issued>>
  /\ UNCHANGED <<poolVars, dev, engineVars>>

\* handleToolsCall: page.goto or waitForContent throws
NavThrows(r) ==
  /\ reqs[r].pc = "goto"
  /\ reqs' = [reqs EXCEPT ![r] = ErrorResponse(reqs[r], "navigation")]
  /\ UNCHANGED <<now, sessionCache, jars, issued>>
  /\ UNCHANGED <<poolVars, dev, engineVars>>

McpTick ==
  /\ now < MaxMcpTicks * McpTickMs
  /\ now' = now + McpTickMs
  /\ UNCHANGED <<mcpVars, dev, engineVars>>
  /\ UNCHANGED <<poolVars, dev, engineVars>>

(***************************************************************************)
(* DevScreenshotTool (unnamed/part_002): screenshotPage with AI tab        *)
(* detection, and loginOnPage                                              *)
(***************************************************************************)
\* a page of the site: its URL, whether it shows a session indicator (logout
\* link, user menu, avatar), a password input, an error message
DevPage(url, ind, pwd, err) == [url |-> url, ind |-> ind, pwd |-> pwd, err |-> err]

DevNoPage == DevPage("about:blank", FALSE, FALSE, FALSE)

DevPages ==
  {DevPage(u, i, p, e) :
     u \in {"/dashboard", "/login", "/auth", "/error"}, i \in BOOLEAN, p \in BOOLEAN, e \in BOOLEAN}

\* authStatus.isOnLoginPage
IsOnLoginPage(page) == IsLoginUrl(page.url) \/ page.pwd

\* authStatus.isAuthenticated
IsAuthenticated(page) == page.ind

\* postLoginStatus.isStillOnLogin
IsStillOnLogin(url) == url \in {"/login", "/signin"}

\* what loginOnPage returns for the page found after the submit
LoginOnPageVerdict(page) ==
  IF page.err THEN FALSE
  ELSE IF ~IsStillOnLogin(page.url) \/ page.ind THEN TRUE
  ELSE FALSE

DevIdle ==
  [pc |-> "idle", creds |-> FALSE, page |-> DevNoPage, caller |-> "none", forms |-> 0,
   issue |-> "none", failed |-> FALSE, shots |-> <<>>,
   useAI |-> FALSE, aiFailed |-> FALSE, heuristic |-> FALSE]

\* screenshotPage is called; it reaches page.goto(url)
DevStart(creds, useAI) ==
  /\ dev.pc = "idle"
  /\ dev' = [dev EXCEPT !.pc = "goto", !.creds = creds, !.useAI = useAI]
  /\ UNCHANGED <<now, poolVars, mcpVars, engineVars>>

\* screenshotPage: the navigation check after page.goto
DevNavDone(landing) ==
  /\ dev.pc = "goto"
  /\ dev' =
       IF WasRedirected(landing.url, RequestedUrl) /\ IsLoginUrl(landing.url)
       THEN IF dev.creds
            THEN [dev EXCEPT !.page = landing, !.pc = "authCheck", !.caller = "page"]
            ELSE [dev EXCEPT !.page = landing, !.pc = "done", !.issue = "login_required"]
       ELSE IF WasRedirected(landing.url, RequestedUrl) /\ IsErrorUrl(landing.url)
       THEN [dev EXCEPT !.page = landing, !.pc = "done", !.issue = "error_page"]
       ELSE [dev EXCEPT !.page = landing, !.pc = "tabs"]
  /\ UNCHANGED <<now, poolVars, mcpVars, engineVars>>

\* loginOnPage returns ok to its caller: screenshotPage goes back to the URL
\* on success and on to the tab detection otherwise; aiDetectAndHandleTabs
\* goes back to the URL and calls itself on success, and otherwise records
\* the issue and returns to screenshotPage, which goes on to the scroll and
\* full-page screenshots
LoginReturns(d, ok) ==
  IF d.caller = "page"
  THEN [d EXCEPT !.caller = "none", !.failed = ~ok, !.pc = IF ok THEN "regoto" ELSE "tabs"]
  ELSE IF ok
  THEN [d EXCEPT !.caller = "none", !.failed = FALSE, !.pc = "regoto"]
  ELSE [d EXCEPT !.caller = "none", !.failed = TRUE, !.pc = "scroll",
                 !.issue = "login_required"]

\* loginOnPage: the authentication status of the current page is evaluated
DevAuthChecked ==
  /\ dev.pc = "authCheck"
  /\ dev' =
       IF IsAuthenticated(dev.page) /\ ~IsOnLoginPage(dev.page)
       THEN LoginReturns(dev, TRUE)
       ELSE IF ~IsOnLoginPage(dev.page)
       THEN [dev EXCEPT !.pc = "loginGoto"]
       ELSE [dev EXCEPT !.pc = "formCheck"]
  /\ UNCHANGED <<now, poolVars, mcpVars, engineVars>>

\* loginOnPage: page.goto(loginUrl) returns
DevLoginGotoDone(landing) ==
  /\ dev.pc = "loginGoto"
  /\ dev' = [dev EXCEPT !.page = landing, !.pc = "formCheck"]
  /\ UNCHANGED <<now, poolVars, mcpVars, engineVars>>

\* loginOnPage: no login form is found
DevFormMissing ==
  /\ dev.pc = "formCheck"
  /\ dev' = LoginReturns(dev, FALSE)
  /\ UNCHANGED <<now, poolVars, mcpVars, engineVars>>

\* loginOnPage: the form is filled and submitted
DevFormSubmit ==
  /\ dev.pc = "formCheck"
  /\ dev.forms < MaxForms
  /\ dev' = [dev EXCEPT !.forms = @ + 1, !.pc = "submitted"]
  /\ UNCHANGED <<now, poolVars, mcpVars, engineVars>>

\* loginOnPage: the page found after the submit is judged
DevSubmitOutcome(landing) ==
  /\ dev.pc = "submitted"
  /\ dev' = LoginReturns([dev EXCEPT !.page = landing], LoginOnPageVerdict(landing))
  /\ UNCHANGED <<now, poolVars, mcpVars, engineVars>>

\* loginOnPage: an await throws; the catch returns false
DevLoginThrows ==
  /\ dev.pc \in {"authCheck", "loginGoto", "formCheck", "submitted"}
  /\ dev' = LoginReturns(dev, FALSE)
  /\ UNCHANGED <<now, poolVars, mcpVars, engineVars>>

\* page.goto(url) after a successful login returns; the tab detection follows
DevRegotoDone(landing) ==
  /\ dev.pc = "regoto"
  /\ dev' = [dev EXCEPT !.page = landing, !.pc = "tabs"]
  /\ UNCHANGED <<now, poolVars, mcpVars, engineVars>>

\* aiDetectAndHandleTabs: the analysis of the page arrives; its issueType is
\* the answer of the language model
DevAnalysisDone(issueType) ==
  /\ dev.pc = "tabs"
  /\ dev.useAI
  /\ dev' =
       IF issueType = "login_required" /\ dev.creds
       THEN [dev EXCEPT !.pc = "authCheck", !.caller = "tabs"]
       ELSE [dev EXCEPT !.pc = "scroll", !.issue = issueType]
  /\ UNCHANGED <<now, poolVars, mcpVars, engineVars>>

\* analyzePageForTabs: the call of the analysis service throws or its answer
\* holds no JSON; the catch of analyzePageForTabs returns an analysis
\* without navigation issue and without tabs, on which
\* aiDetectAndHandleTabs returns its empty results
DevAnalysisFails ==
  /\ dev.pc = "tabs"
  /\ dev.useAI
  /\ dev' = [dev EXCEPT !.pc = "scroll", !.aiFailed = TRUE]
  /\ UNCHANGED <<now, poolVars, mcpVars, engineVars>>

\* aiDetectAndHandleTabs: the analysis named tabs and handling them throws;
\* the catch runs detectAndHandleTabs
DevTabHandlingThrows ==
  /\ dev.pc = "tabs"
  /\ dev.useAI
  /\ dev' = [dev EXCEPT !.pc = "scroll", !.heuristic = TRUE]
  /\ UNCHANGED <<now, poolVars, mcpVars, engineVars>>

\* screenshotPage without useAI: detectAndHandleTabs
DevHeuristicTabs ==
  /\ dev.pc = "tabs"
  /\ ~dev.useAI
  /\ dev' = [dev EXCEPT !.pc = "scroll", !.heuristic = TRUE]
  /\ UNCHANGED <<now, poolVars, mcpVars, engineVars>>

\* screenshotPage: the top, scroll and full-page screenshots of the current
\* page are taken and the results returned
DevCaptureDone ==
  /\ dev.pc = "scroll"
  /\ dev' = [dev EXCEPT !.pc = "done",
                        !.shots = <<Shot("top", dev.page), Shot("full", dev.page)>>]
  /\ UNCHANGED <<now, poolVars, mcpVars, engineVars>>

DevInit == dev = DevIdle

DevNext ==
  \/ \E c \in BOOLEAN, a \in BOOLEAN : DevStart(c, a)
  \/ \E p \in DevPages : DevNavDone(p)
  \/ DevAuthChecked
  \/ \E p \in DevPages : DevLoginGotoDone(p)
  \/ DevFormMissing
  \/ DevFormSubmit
  \/ \E p \in DevPages : DevSubmitOutcome(p)
  \/ DevLoginThrows
  \/ \E p \in DevPages : DevRegotoDone(p)
  \/ \E i \in {"none", "login_required"} : DevAnalysisDone(i)
  \/ DevAnalysisFails
  \/ DevTabHandlingThrows
  \/ DevHeuristicTabs
  \/ DevCaptureDone

(***************************************************************************)
(* performInteractions (mcp-screenshot.js)                                 *)
(***************************************************************************)
\* an interaction: its action, whether it asks for a screenshot and whether
\* it names a selector
Interaction(action, screenshot) ==
  [action |-> action, screenshot |-> screenshot, selector |-> action # "wait"]

\* {action: 'scroll', value: <position>}: a scroll without selector
ScrollToPosition == [action |-> "scroll", screenshot |-> FALSE, selector |-> FALSE]

Interactions ==
  {Interaction(a, s) : a \in {"wait", "click", "fill"}, s \in BOOLEAN}
    \cup {Interaction("scroll", FALSE), ScrollToPosition}

RECURSIVE ListsUpTo(_, _)
\* the lists over S of length at most n
ListsUpTo(S, n) ==
  IF n = 0 THEN {<<>>}
  ELSE LET shorter == ListsUpTo(S, n - 1)
       IN shorter \cup {Append(l, x) : l \in {m \in shorter : Len(m) = n - 1}, x \in S}

\* name: `interaction_${i + 1}_${action}.png` or `error_interaction_...`
StepShot(kind, i, action) == [kind |-> kind, step |-> i, action |-> action]

\* found: for each step so far, whether findElement returned a locator;
\* winScrolls: the steps that called window.scrollTo
InterIdle ==
  [pc |-> "idle", list |-> <<>>, i |-> 0, shots |-> <<>>, log |-> <<>>,
   found |-> <<>>, winScrolls |-> {}]

\* performInteractions is called with a list; an empty list returns at once
InteractStart(list) ==
  /\ inter.pc = "idle"
  /\ inter' = [InterIdle EXCEPT !.list = list,
                                !.i = 1,
                                !.pc = IF Len(list) = 0 THEN "returned" ELSE "loop"]
  /\ UNCHANGED <<now, poolVars, mcpVars, dev, find, plan, restVars>>

AfterFailureAbort(i, n) == n + 1

\* the catch of a step ends in continue: the loop goes on with the next step
AfterFailure(i, n) == i + 1

\* a wait step: page.waitForTimeout, then continue
InteractWait ==
  /\ inter.pc = "loop"
  /\ inter.i <= Len(inter.list)
  /\ inter.list[inter.i].action = "wait"
  /\ inter' = [inter EXCEPT !.i = @ + 1, !.log = Append(@, "waited"),
                            !.found = Append(@, FALSE)]
  /\ UNCHANGED <<now, poolVars, mcpVars, dev, find, plan, restVars>>

\* a step whose element is found and whose action succeeds; its screenshot is
\* taken when the step asks for one
InteractOk ==
  /\ inter.pc = "loop"
  /\ inter.i <= Len(inter.list)
  /\ inter.list[inter.i].action # "wait"
  /\ inter' = [inter EXCEPT
       !.i = @ + 1,
       !.log = Append(@, "ok"),
       !.found = Append(@, TRUE),
       !.winScrolls = IF inter.list[inter.i].action = "scroll"
                         /\ ~inter.list[inter.i].selector
                      THEN @ \cup {inter.i} ELSE @,
       !.shots = IF inter.list[inter.i].screenshot
                 THEN Append(@, StepShot("interaction", inter.i, inter.list[inter.i].action))
                 ELSE @]
  /\ UNCHANGED <<now, poolVars, mcpVars, dev, find, plan, restVars>>

\* a step that throws (findElement finds nothing, or it returns a locator and
\* the action or the step's screenshot throws): the catch takes the error
\* screenshot, which may throw in turn and is then only logged
InteractFails(errorShotTaken, found) ==
  /\ inter.pc = "loop"
  /\ inter.i <= Len(inter.list)
  /\ inter.list[inter.i].action # "wait"
  /\ inter' = [inter EXCEPT
       !.i = AfterFailure(inter.i, Len(inter.list)),
       !.log = Append(@, IF errorShotTaken THEN "failed" ELSE "failed_noshot"),
       !.found = Append(@, found),
       !.shots = IF errorShotTaken
                 THEN Append(@, StepShot("error", inter.i, inter.list[inter.i].action))
                 ELSE @]
  /\ UNCHANGED <<now, poolVars, mcpVars, dev, find, plan, restVars>>

\* the loop is over: the screenshots are returned
InteractReturn ==
  /\ inter.pc = "loop"
  /\ inter.i > Len(inter.list)
  /\ inter' = [inter EXCEPT !.pc = "returned"]
  /\ UNCHANGED <<now, poolVars, mcpVars, dev, find, plan, restVars>>

InterInit == inter = InterIdle

InterNext ==
  \/ \E l \in ListsUpTo(Interactions, MaxSteps) : InteractStart(l)
  \/ InteractWait
  \/ InteractOk
  \/ \E t \in BOOLEAN, f \in BOOLEAN : InteractFails(t, f)
  \/ InteractReturn

(***************************************************************************)
(* findElement (mcp-screenshot.js): the selector-resolution cascade        *)
(***************************************************************************)
\* semanticStrategies.length and selectorFixStrategies.length
SemanticCount == 8
FixCount == 5

\* positions of the cascade: 1 the direct selector, then the semantic
\* strategies, then the selector-fix strategies
NStrategies == 1 + SemanticCount + FixCount

\* the name returned with the locator
StrategyName(k) ==
  IF k = 1 THEN <<"direct-selector", 0>>
  ELSE IF k <= 1 + SemanticCount THEN <<"semantic", k - 1>>
  ELSE <<"fixed", k - 1 - SemanticCount>>

\* what findElement reads of an interaction: the action, whether a value is
\* given, and of the selector: whether its last space-separated part is not
\* empty, whether it starts with tag#id, holds an #id, starts with a tag
\* name, names a common class
Query(action, value, last, tagId, id, tag, cls) ==
  [action |-> action, value |-> value, last |-> last, tagId |-> tagId, id |-> id,
   tag |-> tag, cls |-> cls]

Queries ==
  {q \in {Query(a, v, l, ti, i, t, c) :
            a \in {"click", "fill", "hover"}, v \in BOOLEAN, l \in BOOLEAN, ti \in BOOLEAN,
            i \in BOOLEAN, t \in BOOLEAN, c \in BOOLEAN} :
     q.tagId => (q.id /\ q.tag)}

\* whether the strategy at position k yields a locator or selector to wait
\* for; a strategy whose builder returns null is passed over
Applicable(q, k) ==
  CASE k = 1 -> TRUE
    [] k = 2 -> q.action = "click" /\ q.value
    [] k = 3 -> q.value
    [] k = 4 -> q.action \in {"fill", "select"} /\ q.value
    [] k = 5 -> q.action = "fill" /\ q.value
    [] k = 6 -> q.action = "click"
    [] k = 7 -> TRUE
    [] k = 8 -> q.value
    [] k = 9 -> q.value
    [] k = 10 -> q.last
    [] k = 11 -> q.tagId
    [] k = 12 -> q.id
    [] k = 13 -> q.tag
    [] k = 14 -> q.cls
    [] OTHER -> FALSE

RECURSIVE FirstApplicableFrom(_, _)
\* the first position from k on whose strategy applies, NStrategies + 1 when
\* there is none
FirstApplicableFrom(q, k) ==
  IF k > NStrategies THEN NStrategies + 1
  ELSE IF Applicable(q, k) THEN k
  ELSE FirstApplicableFrom(q, k + 1)

AfterStrategySkipsNext(q, k) == FirstApplicableFrom(q, k + 2)

AfterStrategyAborts(q, k) == NStrategies + 1

\* the catch of a strategy: the cascade goes on with the next position
AfterStrategy(q, k) == FirstApplicableFrom(q, k + 1)

FindIdle ==
  [pc |-> "idle", q |-> Query("none", FALSE, FALSE, FALSE, FALSE, FALSE, FALSE), k |-> 0,
   tried |-> <<>>, threw |-> FALSE, matches |-> "none"]

\* the semantic strategies wait with locator.waitFor, which is strict: it
\* throws when the locator matches several elements; the direct selector and
\* the selector fixes wait with page.waitForSelector, which resolves on the
\* first of several matches
IsStrictWait(k) == k > 1 /\ k <= 1 + SemanticCount

\* how many elements the returned locator can match
MatchCounts(k) == IF IsStrictWait(k) THEN {"one"} ELSE {"one", "several"}

\* findElement is called: the direct selector is waited for
FindStart(q) ==
  /\ find.pc = "idle"
  /\ find' = [FindIdle EXCEPT !.pc = "waiting", !.q = q, !.k = 1]
  /\ UNCHANGED <<now, poolVars, mcpVars, dev, inter, plan, restVars>>

\* the strategy at the current position finds the element: returned
StrategySucceeds(n) ==
  /\ find.pc = "waiting"
  /\ n \in MatchCounts(find.k)
  /\ find' = [find EXCEPT !.pc = "found", !.tried = Append(@, find.k), !.matches = n]
  /\ UNCHANGED <<now, poolVars, mcpVars, dev, inter, plan, restVars>>

\* the strategy at the current position times out, or it throws; the catch
\* moves on, and after the last position the not-found error is thrown
StrategyFails(throws) ==
  /\ find.pc = "waiting"
  /\ LET next == AfterStrategy(find.q, find.k)
     IN find' = [find EXCEPT !.tried = Append(@, find.k),
                             !.threw = @ \/ throws,
                             !.k = next,
                             !.pc = IF next > NStrategies THEN "notfound" ELSE "waiting"]
  /\ UNCHANGED <<now, poolVars, mcpVars, dev, inter, plan, restVars>>

FindInit == find = FindIdle

FindStep ==
  \/ \E n \in {"one", "several"} : StrategySucceeds(n)
  \/ \E t \in BOOLEAN : StrategyFails(t)

FindNext ==
  \/ \E q \in Queries : FindStart(q)
  \/ \E n \in {"one", "several"} : StrategySucceeds(n)
  \/ \E t \in BOOLEAN : StrategyFails(t)

(***************************************************************************)
(* The scroll screenshots of captureScreenshots (src/mcp-screenshot.js,    *)
(* lines 1240-1365; screenshotPage of DevScreenshotTool has the same       *)
(* loop).  The page is the input: the measures of the window, the          *)
(* scrollable containers that pageInfo lists, and the element that the     *)
(* second query of the container branch finds.                             *)
(***************************************************************************)
\* const scrollStep
scrollStep == 800
\* const maxScrollScreenshots
maxScrollScreenshots == 10
\* the window extent above which the window is scrolled
scrollThreshold == 100
\* el.clientHeight > 200 of the filter of scrollableContainers
minContainerHeight == 200

Min(a, b) == IF a < b THEN a ELSE b
Max(a, b) == IF a > b THEN a ELSE b
\* Math.ceil(a / b) for a >= 0, b > 0
Ceil(a, b) == (a + b - 1) \div b

\* windowScrollHeight, windowClientHeight, viewportHeight of pageInfo
WindowMetrics ==
  [windowScrollHeight : {700, 800, 801, 1500, 2500, 9000},
   windowClientHeight : {685, 700},
   viewportHeight : {700}]
    \cup {[windowScrollHeight |-> 4000, windowClientHeight |-> 1000,
           viewportHeight |-> 1000]}

\* scrollHeight and clientHeight of an entry of pageInfo.scrollableContainers:
\* the filter keeps elements with scrollHeight > clientHeight > 200
ContainerMetrics ==
  {c \in [scrollHeight : {301, 1200, 2800}, clientHeight : {300}] :
     c.scrollHeight > c.clientHeight /\ c.clientHeight > minContainerHeight}

\* pageInfo.scrollableContainers: the qualifying elements in document order
ContainerLists ==
  {<<>>} \cup {<<c>> : c \in ContainerMetrics}
         \cup {<<c, d>> : c \in ContainerMetrics, d \in {[scrollHeight |-> 2800, clientHeight |-> 300]}}

\* what the query 'main, [class*="overflow"], [class*="scroll"]' of the
\* container branch scrolls: scrollableContainers[0] itself ("first"),
\* another element with its own extent (a MAIN element, or one matched by
\* class that comes first among the matches), or the window when nothing
\* matches
NoTarget == [kind |-> "none", extent |-> 0]
ScrollTargets ==
  {[kind |-> "first", extent |-> 0], [kind |-> "window", extent |-> 0]}
    \cup {[kind |-> "other", extent |-> e] : e \in {50, 4000}}

\* const maxScroll
maxScroll(info) ==
  Max(info.windowScrollHeight - info.windowClientHeight,
      info.windowScrollHeight - info.viewportHeight)

hasScrollableContainers(info) == Len(info.scrollableContainers) > 0

\* container.scrollHeight - container.clientHeight of scrollableContainers[0]
containerMaxScroll(info) ==
  info.scrollableContainers[1].scrollHeight - info.scrollableContainers[1].clientHeight

\* let totalScrollSteps, 0 when the page has nothing to scroll
totalScrollSteps(info) ==
  IF maxScroll(info) > scrollThreshold \/ hasScrollableContainers(info)
    THEN Min(Max(Ceil(maxScroll(info), scrollStep),
                 IF hasScrollableContainers(info)
                   THEN Ceil(containerMaxScroll(info), scrollStep) ELSE 0),
             maxScrollScreenshots - 1)
    ELSE 0

\* the target of step number step without the clamp to the extent
currentScrollUnclamped(info, step) == step * scrollStep

\* currentScroll of step number step
currentScroll(info, step) ==
  IF maxScroll(info) > scrollThreshold
    THEN Min(step * scrollStep, maxScroll(info))
    ELSE Min(step * scrollStep, containerMaxScroll(info))

NoPageInfo ==
  [windowScrollHeight |-> 0, windowClientHeight |-> 0, viewportHeight |-> 0,
   scrollableContainers |-> <<>>]

\* a screenshot pushed by the scroll and full-page part: _scroll_0_top,
\* _scroll_<index>_<px>px, _fullpage
ScrollArtifact(kind, index, px) == [kind |-> kind, index |-> index, px |-> px]

\* winY, elY: the scroll offsets of the window and of the element that the
\* container branch scrolls
PlanIdle ==
  [pc |-> "idle", pageInfo |-> NoPageInfo, target |-> NoTarget, total |-> 0,
   step |-> 0, screenshotIndex |-> 0, shots |-> <<>>,
   fullPage |-> FALSE, artifacts |-> <<>>, winY |-> 0, elY |-> 0]

\* the extent of the element that scrollTo of a step is called on: the
\* browser clamps the offset to it
ScrolledExtent(info, t) ==
  IF maxScroll(info) > scrollThreshold THEN maxScroll(info)
  ELSE CASE t.kind = "first" -> containerMaxScroll(info)
         [] t.kind = "other" -> t.extent
         [] OTHER -> Max(maxScroll(info), 0)

\* whether the step scrolls the window (window branch, or the fallback of
\* the container branch)
ScrollsWindow(info, t) ==
  maxScroll(info) > scrollThreshold \/ t.kind = "window"

\* the page is measured, the top screenshot is taken and the steps are planned
ScrollStart(w, cs, t, fp) ==
  LET info == [windowScrollHeight |-> w.windowScrollHeight,
               windowClientHeight |-> w.windowClientHeight,
               viewportHeight |-> w.viewportHeight,
               scrollableContainers |-> cs]
  IN /\ plan.pc = "idle"
     \* the second query only runs in the container branch
     /\ IF maxScroll(info) <= scrollThreshold /\ hasScrollableContainers(info)
          THEN t \in ScrollTargets ELSE t = NoTarget
     /\ plan' = [pc |-> "loop", pageInfo |-> info, target |-> t,
                 total |-> totalScrollSteps(info), step |-> 1,
                 screenshotIndex |-> 1, shots |-> <<>>,
                 fullPage |-> fp,
                 artifacts |-> <<ScrollArtifact("top", 0, 0)>>,
                 winY |-> 0, elY |-> 0]
     /\ UNCHANGED <<now, poolVars, mcpVars, dev, inter, find, restVars>>

\* one turn of the loop: the root is scrolled to currentScroll and the
\* viewport is captured
ScrollStep ==
  /\ plan.pc = "loop"
  /\ plan.step <= plan.total
  /\ plan.screenshotIndex < maxScrollScreenshots
  /\ plan' = [plan EXCEPT
       !.shots = Append(@,
          [currentScroll |-> currentScroll(plan.pageInfo, plan.step),
           root |-> IF maxScroll(plan.pageInfo) > scrollThreshold
                      THEN "window" ELSE plan.target.kind]),
       !.artifacts = Append(@,
          ScrollArtifact("scroll", plan.screenshotIndex,
                         currentScroll(plan.pageInfo, plan.step))),
       !.winY = IF ScrollsWindow(plan.pageInfo, plan.target)
                  THEN Min(currentScroll(plan.pageInfo, plan.step),
                           ScrolledExtent(plan.pageInfo, plan.target))
                  ELSE @,
       !.elY = IF ScrollsWindow(plan.pageInfo, plan.target) THEN @
               ELSE Min(currentScroll(plan.pageInfo, plan.step),
                        ScrolledExtent(plan.pageInfo, plan.target)),
       !.step = @ + 1,
       !.screenshotIndex = @ + 1]
  /\ UNCHANGED <<now, poolVars, mcpVars, dev, inter, find, restVars>>

\* the loop ends: every planned step is taken, or the cap is reached
ScrollEnd ==
  /\ plan.pc = "loop"
  /\ plan.step > plan.total \/ plan.screenshotIndex >= maxScrollScreenshots
  /\ plan' = [plan EXCEPT !.pc = IF plan.fullPage THEN "full" ELSE "done"]
  /\ UNCHANGED <<now, poolVars, mcpVars, dev, inter, find, restVars>>

\* if (fullPage): window.scrollTo(0, 0), then the full-page screenshot
FullPageShot ==
  /\ plan.pc = "full"
  /\ plan' = [plan EXCEPT !.pc = "done",
                          !.winY = 0,
                          !.artifacts = Append(@, ScrollArtifact("fullpage", 0, 0))]
  /\ UNCHANGED <<now, poolVars, mcpVars, dev, inter, find, restVars>>

PlanInit == plan = PlanIdle

ScrollNext ==
  \/ \E w \in WindowMetrics, cs \in ContainerLists,
        t \in ScrollTargets \cup {NoTarget}, fp \in BOOLEAN :
       ScrollStart(w, cs, t, fp)
  \/ ScrollStep
  \/ ScrollEnd
  \/ FullPageShot

(***************************************************************************)
(* waitForContent (src/mcp-screenshot.js, lines 291-408).  The four        *)
(* readiness checks are started together; the mode and the page type       *)
(* choose which of them Promise.all awaits and the setTimeout it races.    *)
(* Time is counted from the start of the checks in steps of WaitTickMs.    *)
(***************************************************************************)
\* the keys of readinessChecks
ReadinessChecks == {"basicContent", "dataElements", "interactiveElements", "noLoading"}

\* one advance of the clock of the race
WaitTickMs == 1000

\* the timeout option of the waitForFunction of a check
CheckTimeout(c) == IF c = "dataElements" THEN 8000 ELSE 5000

\* the delay of the setTimeout that Promise.race is given
Ceiling(fastMode, isDataHeavyPage) ==
  IF fastMode THEN 2000 ELSE IF isDataHeavyPage THEN 8000 ELSE 5000

\* the list given to Promise.all when the page type is asked before the mode
AwaitedChecksDataFirst(fastMode, isDataHeavyPage) ==
  IF isDataHeavyPage THEN {"basicContent", "dataElements", "noLoading"}
  ELSE IF fastMode THEN {"basicContent", "noLoading"}
  ELSE {"basicContent", "interactiveElements", "noLoading"}

\* the list given to Promise.all
AwaitedChecks(fastMode, isDataHeavyPage) ==
  IF fastMode THEN {"basicContent", "noLoading"}
  ELSE IF isDataHeavyPage THEN {"basicContent", "dataElements", "noLoading"}
  ELSE {"basicContent", "interactiveElements", "noLoading"}

\* whether the check is a waitForFunction, or Promise.resolve(true)
IsRealCheck(c, isDataHeavyPage, isInteractivePage) ==
  CASE c = "dataElements" -> isDataHeavyPage
    [] c = "interactiveElements" -> isInteractivePage
    [] OTHER -> TRUE

ReadyIdle ==
  [pc |-> "idle", fastMode |-> FALSE, isDataHeavyPage |-> FALSE,
   isInteractivePage |-> FALSE,
   checks |-> [c \in ReadinessChecks |-> "none"],
   elapsed |-> 0, closed |-> FALSE, raceEnd |-> 0]

\* the checks of the race that are neither fulfilled nor caught
PendingAwaited ==
  {c \in AwaitedChecks(ready.fastMode, ready.isDataHeavyPage) :
     ready.checks[c] = "pending"}

WaitStart(fastMode) ==
  /\ ready.pc = "idle"
  /\ ready' = [ready EXCEPT !.pc = "evaluate", !.fastMode = fastMode]
  /\ UNCHANGED <<now, poolVars, mcpVars, dev, inter, find, plan, nav, lateVars>>

\* page.evaluate returns pageInfo; the four checks are started
EvaluateDone(dataHeavy, interactive) ==
  /\ ready.pc = "evaluate"
  /\ ready' = [ready EXCEPT
       !.pc = "race",
       !.isDataHeavyPage = dataHeavy,
       !.isInteractivePage = interactive,
       !.checks = [c \in ReadinessChecks |->
                     IF IsRealCheck(c, dataHeavy, interactive)
                       THEN "pending" ELSE "resolved"]]
  /\ UNCHANGED <<now, poolVars, mcpVars, dev, inter, find, plan, nav, lateVars>>

\* page.evaluate rejects (the page is navigating or closed): nothing catches
EvaluateThrows ==
  /\ ready.pc = "evaluate"
  /\ ready' = [ready EXCEPT !.pc = "threw", !.closed = TRUE]
  /\ UNCHANGED <<now, poolVars, mcpVars, dev, inter, find, plan, nav, lateVars>>

\* the predicate of a check becomes true before its timeout
CheckOk(c) ==
  /\ ready.pc = "race"
  /\ ready.checks[c] = "pending"
  /\ ~ready.closed
  /\ ready.elapsed < CheckTimeout(c)
  /\ ready' = [ready EXCEPT !.checks[c] = "ok"]
  /\ UNCHANGED <<now, poolVars, mcpVars, dev, inter, find, plan, nav, lateVars>>

\* the waitForFunction of a check rejects, by its timeout or because the
\* page is gone: .catch(() => true) fulfils the check
CheckCaught(c) ==
  /\ ready.pc = "race"
  /\ ready.checks[c] = "pending"
  /\ ready.closed \/ ready.elapsed = CheckTimeout(c)
  /\ ready' = [ready EXCEPT !.checks[c] = IF ready.closed THEN "error" ELSE "timeout"]
  /\ UNCHANGED <<now, poolVars, mcpVars, dev, inter, find, plan, nav, lateVars>>

\* the page is closed or navigates away while the caller waits
PageCloses ==
  /\ ready.pc \in {"race", "final"}
  /\ ~ready.closed
  /\ ready' = [ready EXCEPT !.closed = TRUE]
  /\ UNCHANGED <<now, poolVars, mcpVars, dev, inter, find, plan, nav, lateVars>>

\* time passes while the race is undecided
WaitTick ==
  /\ ready.pc = "race"
  /\ PendingAwaited # {}
  /\ ready.elapsed < Ceiling(ready.fastMode, ready.isDataHeavyPage)
  /\ ~ready.closed
  /\ \A c \in ReadinessChecks :
       ready.checks[c] = "pending" => ready.elapsed < CheckTimeout(c)
  /\ ready' = [ready EXCEPT !.elapsed = @ + WaitTickMs]
  /\ UNCHANGED <<now, poolVars, mcpVars, dev, inter, find, plan, nav, lateVars>>

\* Promise.race settles: every awaited check is fulfilled, or the setTimeout
\* fires
RaceEnds ==
  /\ ready.pc = "race"
  /\ PendingAwaited = {} \/ ready.elapsed = Ceiling(ready.fastMode, ready.isDataHeavyPage)
  /\ ready' = [ready EXCEPT !.pc = "final", !.raceEnd = ready.elapsed]
  /\ UNCHANGED <<now, poolVars, mcpVars, dev, inter, find, plan, nav, lateVars>>

\* page.waitForTimeout(100) and the return
FinalWaitDone ==
  /\ ready.pc = "final"
  /\ ~ready.closed
  /\ ready' = [ready EXCEPT !.pc = "returned"]
  /\ UNCHANGED <<now, poolVars, mcpVars, dev, inter, find, plan, nav, lateVars>>

\* page.waitForTimeout(100) rejects on a closed page: nothing catches
FinalWaitThrows ==
  /\ ready.pc = "final"
  /\ ready.closed
  /\ ready' = [ready EXCEPT !.pc = "threw"]
  /\ UNCHANGED <<now, poolVars, mcpVars, dev, inter, find, plan, nav, lateVars>>

ReadyInit == ready = ReadyIdle

ReadyNext ==
  \/ \E f \in BOOLEAN : WaitStart(f)
  \/ \E h \in BOOLEAN, i \in BOOLEAN : EvaluateDone(h, i)
  \/ EvaluateThrows
  \/ \E c \in ReadinessChecks : CheckOk(c)
  \/ \E c \in ReadinessChecks : CheckCaught(c)
  \/ PageCloses
  \/ WaitTick
  \/ RaceEnds
  \/ FinalWaitDone
  \/ FinalWaitThrows

(***************************************************************************)
(* generateBaseName and navigatePages (src/mcp-screenshot.js, lines        *)
(* 270-288 and 1058-1126).  A string is a sequence of characters; a URL    *)
(* has a host, a pathname, a search and a hash.                            *)
(***************************************************************************)
UpperCase == {"A", "B"}
LowerCase == {"a", "b", "e", "g", "h", "m", "o", "p"}
Digits == {"1"}

\* String.prototype.toLowerCase on one character
ToLower(c) == IF c = "A" THEN "a" ELSE IF c = "B" THEN "b" ELSE c

\* [a-zA-Z0-9_-]
IsNameChar(c) == c \in UpperCase \cup LowerCase \cup Digits \cup {"_", "-"}

\* [a-zA-Z0-9_=&-]
IsQueryChar(c) == IsNameChar(c) \/ c \in {"=", "&"}

RECURSIVE StripLeading(_, _)
\* the string without its leading characters c
StripLeading(str, c) ==
  IF str # <<>> /\ Head(str) = c THEN StripLeading(Tail(str), c) ELSE str

RECURSIVE StripTrailing(_, _)
\* the string without its trailing characters c
StripTrailing(str, c) ==
  IF str # <<>> /\ str[Len(str)] = c
    THEN StripTrailing(SubSeq(str, 1, Len(str) - 1), c) ELSE str

RECURSIVE Collapse(_, _)
\* replace(/_+/g, '_'): every run of c becomes one c
Collapse(str, c) ==
  IF Len(str) < 2 THEN str
  ELSE IF str[1] = c /\ str[2] = c THEN Collapse(Tail(str), c)
  ELSE <<str[1]>> \o Collapse(Tail(str), c)

\* the string 'homepage'
Homepage == <<"h", "o", "m", "e", "p", "a", "g", "e">>

\* the string 'page'
PageName == <<"p", "a", "g", "e">>

\* the cut of the query string: substring(0, 30)
QueryCut == 30

\* generateBaseName(urlObj)
generateBaseName(url) ==
  LET name0 == IF url.pathname = <<"/">> THEN Homepage ELSE url.pathname
      trimmed == StripTrailing(StripLeading(name0, "/"), "/")
      under == [i \in 1..Len(trimmed) |->
                  IF trimmed[i] = "/" \/ ~IsNameChar(trimmed[i]) THEN "_" ELSE trimmed[i]]
      one == Collapse(under, "_")
      lower == [i \in 1..Len(one) |-> ToLower(one[i])]
      query == [i \in 1..Len(url.search) |->
                  IF IsQueryChar(url.search[i]) THEN url.search[i] ELSE "_"]
      cut == SubSeq(query, 1, IF Len(query) < QueryCut THEN Len(query) ELSE QueryCut)
      name == IF url.search # <<>> THEN lower \o <<"_">> \o cut ELSE lower
  IN IF name = <<>> THEN PageName ELSE name

Url(host, pathname, search, hash) ==
  [host |-> host, pathname |-> pathname, search |-> search, hash |-> hash]

\* the pages that link to each other
Urls ==
  {Url("a.test", <<"/">>, <<>>, <<>>),
   Url("a.test", <<"/", "a", "/", "b">>, <<>>, <<>>),
   Url("a.test", <<"/", "a", "_", "b">>, <<>>, <<>>),
   Url("a.test", <<"/", "A", "/", "b">>, <<"p", "=", "1">>, <<>>),
   Url("b.test", <<"/", "a", "/", "b">>, <<>>, <<>>),
   Url("a.test", <<"/", "a", "/", "b">>, <<>>, <<"#", "m">>)}

\* the URLs a request starts its navigation flow from
StartUrls ==
  {Url("a.test", <<"/">>, <<>>, <<>>), Url("b.test", <<"/", "a", "/", "b">>, <<>>, <<>>)}

\* navigationFlow.maxDepth as the request gives it: absent, or a number
NoDepth == [given |-> FALSE, depth |-> 0]
RequestedDepths == {NoDepth} \cup {[given |-> TRUE, depth |-> d] : d \in 0..MaxRequestedDepth}

maxDepthAsRequested(requested) == IF requested.given THEN requested.depth ELSE 2

\* navigationFlow.maxDepth || 2: an absent maxDepth and the number 0 are
\* both falsy
maxDepth(requested) ==
  IF requested.given /\ requested.depth # 0 THEN requested.depth ELSE 2

\* links.slice(0, 5)
LinkLimit == 5

\* currentUrl as navigate compares it: the href, token by token
Href(url) == <<url.host>> \o url.pathname \o url.search \o url.hash

\* currentUrl.includes(pattern)
Includes(text, pattern) ==
  \E i \in 1..(Len(text) - Len(pattern) + 1) :
    SubSeq(text, i, i + Len(pattern) - 1) = pattern

\* navigationFlow.excludePatterns || []
ExcludeSets == {{}, {<<"b.test">>, <<"a", "_">>}}

\* excludePatterns.some(pattern => currentUrl.includes(pattern))
Excluded(url, patterns) == \E pt \in patterns : Includes(Href(url), pt)

\* name: `nav_${depth}_${baseName}.png`
NavShot(depth, url) == [depth |-> depth, baseName |-> generateBaseName(url)]

\* stack: the URLs of the calls of navigate that have not returned, the
\* outermost first; the depth of the innermost is Len(stack) - 1;
\* called: for each of them, how many links of its page navigate was called on;
\* each: navigationFlow.screenshotEachPage; origin: page.url() when
\* navigatePages is called; current: the URL the page is on; captured: the
\* URL the page is on when captureScreenshots takes its scroll screenshots
NavIdle ==
  [pc |-> "idle", visitedUrls |-> {}, stack |-> <<>>, called |-> <<>>, screenshots |-> <<>>,
   requested |-> NoDepth, excludePatterns |-> {}, each |-> TRUE, origin |-> <<>>,
   current |-> <<>>, captured |-> <<>>]

\* the first lines of navigate: the call returns at once for a depth beyond
\* maxDepth, a visited URL or an excluded one
ReturnsAtOnce(url, depth) ==
  \/ depth > maxDepth(nav.requested)
  \/ url \in nav.visitedUrls
  \/ Excluded(url, nav.excludePatterns)

\* navigatePages calls navigate(baseUrl, 0); the page loads and is captured
NavStart(baseUrl, requested, patterns, each) ==
  /\ nav.pc = "idle"
  /\ LET begun == [NavIdle EXCEPT !.requested = requested, !.excludePatterns = patterns,
                                  !.each = each, !.origin = <<baseUrl>>,
                                  !.current = <<baseUrl>>]
     IN nav' = IF Excluded(baseUrl, patterns)
               THEN [begun EXCEPT !.pc = "returned"]
               ELSE [begun EXCEPT !.pc = "navigate", !.visitedUrls = {baseUrl},
                                  !.stack = <<baseUrl>>, !.called = <<0>>,
                                  !.screenshots = IF each THEN <<NavShot(0, baseUrl)>>
                                                  ELSE <<>>]
  /\ UNCHANGED <<now, poolVars, mcpVars, dev, inter, find, plan, ready, lateVars>>

\* navigate(link, depth + 1) for one of the first five links of the current
\* page: the page loads and is captured
NavFollow(link) ==
  /\ nav.pc = "navigate"
  /\ nav.stack # <<>>
  /\ nav.called[Len(nav.stack)] < LinkLimit
  /\ ~ReturnsAtOnce(link, Len(nav.stack))
  /\ nav' = [nav EXCEPT !.visitedUrls = @ \cup {link},
                        !.called[Len(nav.stack)] = @ + 1,
                        !.stack = Append(@, link),
                        !.called = Append(@, 0),
                        !.current = <<link>>,
                        !.screenshots = IF nav.each
                                        THEN Append(@, NavShot(Len(nav.stack), link))
                                        ELSE @]
  /\ UNCHANGED <<now, poolVars, mcpVars, dev, inter, find, plan, ready, lateVars>>

\* navigate(link, depth + 1) where page.goto or the screenshot throws: the
\* catch logs and the call returns; the page has reached the link or not
NavFollowFails(link, landed) ==
  /\ nav.pc = "navigate"
  /\ nav.stack # <<>>
  /\ nav.called[Len(nav.stack)] < LinkLimit
  /\ ~ReturnsAtOnce(link, Len(nav.stack))
  /\ nav' = [nav EXCEPT !.visitedUrls = @ \cup {link},
                        !.current = IF landed THEN <<link>> ELSE @,
                        !.called[Len(nav.stack)] = @ + 1]
  /\ UNCHANGED <<now, poolVars, mcpVars, dev, inter, find, plan, ready, lateVars>>

\* navigate(link, depth + 1) that returns at once
NavSkip ==
  /\ nav.pc = "navigate"
  /\ nav.stack # <<>>
  /\ nav.called[Len(nav.stack)] < LinkLimit
  /\ {link \in Urls : ReturnsAtOnce(link, Len(nav.stack))} # {}
  /\ nav' = [nav EXCEPT !.called[Len(nav.stack)] = @ + 1]
  /\ UNCHANGED <<now, poolVars, mcpVars, dev, inter, find, plan, ready, lateVars>>

\* the links of the current page are done: navigate returns; when the
\* outermost call returns, navigatePages returns the screenshots
NavBack ==
  /\ nav.pc = "navigate"
  /\ nav.stack # <<>>
  /\ nav' = [nav EXCEPT !.stack = SubSeq(@, 1, Len(@) - 1),
                        !.called = SubSeq(@, 1, Len(@) - 1),
                        !.pc = IF Len(nav.stack) = 1 THEN "returned" ELSE @]
  /\ UNCHANGED <<now, poolVars, mcpVars, dev, inter, find, plan, ready, lateVars>>

\* captureScreenshots after navigatePages returned: with navigation
\* screenshots it returns them at once, otherwise the scroll and full-page
\* screenshots of the page are taken
CaptureAfterFlow ==
  /\ nav.pc = "returned"
  /\ nav' = IF nav.screenshots # <<>>
            THEN [nav EXCEPT !.pc = "responded"]
            ELSE [nav EXCEPT !.pc = "responded", !.captured = nav.current]
  /\ UNCHANGED <<now, poolVars, mcpVars, dev, inter, find, plan, ready, lateVars>>

NavInit == nav = NavIdle

NavStep ==
  \/ \E u \in Urls : NavFollow(u)
  \/ \E u \in Urls, l \in BOOLEAN : NavFollowFails(u, l)
  \/ NavSkip
  \/ NavBack

NavNext ==
  \/ \E u \in StartUrls, d \in RequestedDepths, x \in ExcludeSets, e \in BOOLEAN :
       NavStart(u, d, x, e)
  \/ \E u \in Urls : NavFollow(u)
  \/ \E u \in Urls, l \in BOOLEAN : NavFollowFails(u, l)
  \/ NavSkip
  \/ NavBack
  \/ CaptureAfterFlow

(***************************************************************************)
(* The tab loops of DevScreenshotTool (src/unnamed/part_002):              *)
(* detectAndHandleTabs and the loop of aiDetectAndHandleTabs.  A region is *)
(* read for whether it has a fallback selector that differs from the       *)
(* primary one and whether it has a rectangle (rect, or position for the   *)
(* regions of the analysis).                                               *)
(***************************************************************************)
Region(fallback, rect) == [fallback |-> fallback, rect |-> rect]

Regions == {Region(f, r) : f \in BOOLEAN, r \in BOOLEAN}

RegionLists == UNION {[1..n -> Regions] : n \in 1..MaxTabs}

\* options.maxTabsPerPage || 10, as the caller configures it
TabCaps == 1..MaxTabCap

\* detectAndHandleTabs: tabInfo.tabs.slice(0, maxTabsPerPage) when more were
\* found; the loop of aiDetectAndHandleTabs runs over aiAnalysis.tabs as is
TabsToProcess(mode, regions, cap) ==
  IF mode = "heuristic" /\ Len(regions) > cap THEN SubSeq(regions, 1, cap) ELSE regions

\* the click strategy tried after strategy m failed on region t, "none" when
\* the strategies are used up
NextClick(mode, t, m) ==
  IF mode = "heuristic"
  THEN CASE m = "primary" -> IF t.fallback THEN "fallback"
                             ELSE IF t.rect THEN "coordinates" ELSE "none"
         [] m = "fallback" -> IF t.rect THEN "coordinates" ELSE "none"
         [] OTHER -> "none"
  ELSE CASE m = "primary" -> IF t.rect THEN "coordinates" ELSE "none"
         [] OTHER -> "none"

TabsIdle ==
  [pc |-> "idle", mode |-> "none", cap |-> 0, found |-> <<>>, regions |-> <<>>, i |-> 0,
   method |-> "none", attempts |-> <<>>, results |-> <<>>]

\* results.push for region i, and the loop moves on
TabRecorded(outcome) ==
  [tabs EXCEPT !.results = Append(@, [tab_index |-> tabs.i, outcome |-> outcome]),
               !.i = @ + 1,
               !.method = "primary",
               !.pc = IF tabs.i = Len(tabs.regions) THEN "done" ELSE "click"]

\* the regions are detected and the loop is entered at the first one; the
\* regions of the analysis carry a selector, a position and a size only
TabsStart(mode, regions, cap) ==
  /\ tabs.pc = "idle"
  /\ mode = "ai" => \A j \in 1..Len(regions) : ~regions[j].fallback
  /\ tabs' = [TabsIdle EXCEPT !.pc = "click", !.mode = mode, !.cap = cap,
                              !.found = regions,
                              !.regions = TabsToProcess(mode, regions, cap),
                              !.i = 1, !.method = "primary",
                              !.attempts = [j \in 1..Len(TabsToProcess(mode, regions, cap)) |-> <<>>]]
  /\ UNCHANGED <<now, poolVars, mcpVars, dev, inter, find, plan, ready, nav, crawl, proc>>

\* the click of the current strategy succeeds
TabClickOk ==
  /\ tabs.pc = "click"
  /\ tabs' = [tabs EXCEPT !.attempts[tabs.i] = Append(@, tabs.method), !.pc = "capture"]
  /\ UNCHANGED <<now, poolVars, mcpVars, dev, inter, find, plan, ready, nav, crawl, proc>>

\* the click of the current strategy throws: the next strategy, or the
\* error record of this region
TabClickFails ==
  /\ tabs.pc = "click"
  /\ LET next == NextClick(tabs.mode, tabs.regions[tabs.i], tabs.method)
         tried == [tabs EXCEPT !.attempts[tabs.i] = Append(@, tabs.method)]
     IN tabs' = IF next = "none"
                THEN [TabRecorded("click failed") EXCEPT !.attempts = tried.attempts]
                ELSE [tried EXCEPT !.method = next]
  /\ UNCHANGED <<now, poolVars, mcpVars, dev, inter, find, plan, ready, nav, crawl, proc>>

\* the content is waited for and the screenshot of the tab is taken
TabCaptureDone ==
  /\ tabs.pc = "capture"
  /\ tabs' = TabRecorded("captured")
  /\ UNCHANGED <<now, poolVars, mcpVars, dev, inter, find, plan, ready, nav, crawl, proc>>

\* a wait or the screenshot throws: the catch of the loop body records it
TabCaptureThrows ==
  /\ tabs.pc = "capture"
  /\ tabs' = TabRecorded("capture failed")
  /\ UNCHANGED <<now, poolVars, mcpVars, dev, inter, find, plan, ready, nav, crawl, proc>>

\* results are returned
TabsReturn ==
  /\ tabs.pc = "done"
  /\ tabs' = TabsIdle
  /\ UNCHANGED <<now, poolVars, mcpVars, dev, inter, find, plan, ready, nav, crawl, proc>>

TabsInit == tabs = TabsIdle

TabsNext ==
  \/ \E m \in {"heuristic", "ai"}, rs \in RegionLists, cap \in TabCaps : TabsStart(m, rs, cap)
  \/ TabClickOk
  \/ TabClickFails
  \/ TabCaptureDone
  \/ TabCaptureThrows
  \/ TabsReturn

(***************************************************************************)
(* The crawl of DevScreenshotTool (src/unnamed/part_002):                  *)
(* crawlAndScreenshot and shouldVisitUrl.  A URL string is read for its    *)
(* host, its path (empty when the string ends at the host) and its         *)
(* fragment.                                                               *)
(***************************************************************************)
CrawlUrl(host, path, hash) == [host |-> host, path |-> path, hash |-> hash]

\* new URL(url, baseUrl).href of an absolute URL: an empty path becomes "/",
\* the fragment is kept
CrawlHref(u) == [u EXCEPT !.path = IF @ = <<>> THEN <<"/">> ELSE @]

\* the document a URL string loads: the fragment does not reach the server
CrawlPage(u) == [CrawlHref(u) EXCEPT !.hash = <<>>]

\* the start URLs as they are typed in the configuration
CrawlStartUrls ==
  {CrawlUrl("a.test", <<>>, <<>>), CrawlUrl("a.test", <<"/">>, <<>>)}

\* extractLinks: link.href of the anchors of a page
CrawlLinks ==
  {CrawlUrl("a.test", <<"/">>, <<>>), CrawlUrl("a.test", <<"/">>, <<"#", "top">>),
   CrawlUrl("a.test", <<"/", "x">>, <<>>), CrawlUrl("b.test", <<"/">>, <<>>)}

CrawlIdle ==
  [pc |-> "idle", visitedUrls |-> {}, stack |-> <<>>, captured |-> <<>>, maxPages |-> 0]

\* shouldVisitUrl(url, baseUrl), for URLs that no exclude pattern matches
\* and whose file type is included
shouldVisitUrl(url, baseUrl) ==
  /\ CrawlHref(url) \notin crawl.visitedUrls
  /\ CrawlHref(url).host = CrawlHref(baseUrl).host

\* the first lines of crawlAndScreenshot(url, depth)
CrawlEnters(url, depth) ==
  /\ ~(depth > CrawlMaxDepth \/ Cardinality(crawl.visitedUrls) >= crawl.maxPages)
  /\ shouldVisitUrl(url, url)

\* visitedUrls.add(startUrl) and screenshotPage(startUrl)
CrawlVisit(url) ==
  [crawl EXCEPT !.visitedUrls = @ \cup {url},
                !.captured = Append(@, url),
                !.stack = Append(@, url)]

\* crawlAndScreenshot(startUrl) of a crawl target
CrawlStart(startUrl, maxPages) ==
  /\ crawl.pc = "idle"
  /\ crawl' = [CrawlIdle EXCEPT !.pc = "crawl", !.maxPages = maxPages,
                                !.visitedUrls = {startUrl}, !.captured = <<startUrl>>,
                                !.stack = <<startUrl>>]
  /\ UNCHANGED <<now, poolVars, mcpVars, dev, inter, find, plan, ready, nav, tabs, proc>>

\* the loop over the links of the page on top of the stack: a link that
\* passes shouldVisitUrl is crawled at depth + 1
CrawlFollow(link) ==
  /\ crawl.pc = "crawl"
  /\ crawl.stack # <<>>
  /\ Len(crawl.stack) - 1 < CrawlMaxDepth
  /\ Cardinality(crawl.visitedUrls) < crawl.maxPages
  /\ shouldVisitUrl(link, crawl.stack[Len(crawl.stack)])
  /\ CrawlEnters(link, Len(crawl.stack))
  /\ crawl' = CrawlVisit(link)
  /\ UNCHANGED <<now, poolVars, mcpVars, dev, inter, find, plan, ready, nav, tabs, proc>>

\* the links of the page are done, or page.goto / extractLinks threw: the
\* call returns
CrawlBack ==
  /\ crawl.pc = "crawl"
  /\ crawl.stack # <<>>
  /\ crawl' = [crawl EXCEPT !.stack = SubSeq(@, 1, Len(@) - 1),
                            !.pc = IF Len(crawl.stack) = 1 THEN "done" ELSE @]
  /\ UNCHANGED <<now, poolVars, mcpVars, dev, inter, find, plan, ready, nav, tabs, proc>>

CrawlInit == crawl = CrawlIdle

CrawlNext ==
  \/ \E u \in CrawlStartUrls, n \in 1..MaxCrawlPages : CrawlStart(u, n)
  \/ \E u \in CrawlLinks : CrawlFollow(u)
  \/ CrawlBack

(***************************************************************************)
(* The process and its shutdown (src/mcp-screenshot.js): shutdown, the     *)
(* signal handlers of the module and the ones that start() registers.      *)
(***************************************************************************)
\* timer: the sweep interval is set; complete: shutdown ran to its last line
ProcRunning ==
  [pc |-> "running", i |-> 0, timer |-> TRUE, cause |-> "none", complete |-> FALSE]

\* shutdown from the loop position (phase, i) up to its next await: the
\* close of the i-th context, the close of the i-th browser, or, with the
\* loops done, the last line, after which the handler calls process.exit
ShutdownFrom(phase, i, cause) ==
  IF phase = "contexts" /\ i <= Len(contextPool)
  THEN /\ proc' = [pc |-> "contexts", i |-> i, timer |-> FALSE, cause |-> cause,
                   complete |-> FALSE]
       /\ UNCHANGED <<contextPool, browserPool, sessionCache>>
  ELSE LET j == IF phase = "contexts" THEN 1 ELSE i
           cleared == IF phase = "contexts" THEN <<>> ELSE contextPool
       IN IF j <= Len(browserPool)
          THEN /\ proc' = [pc |-> "browsers", i |-> j, timer |-> FALSE, cause |-> cause,
                           complete |-> FALSE]
               /\ contextPool' = cleared
               /\ UNCHANGED <<browserPool, sessionCache>>
          ELSE /\ proc' = [pc |-> "exited", i |-> 0, timer |-> FALSE, cause |-> cause,
                           complete |-> TRUE]
               /\ contextPool' = cleared
               /\ browserPool' = <<>>
               /\ sessionCache' = [k \in SessionKeys |-> NoSession]

\* uncaughtException / unhandledRejection: the only handler awaits
\* server.shutdown() and then exits
UncaughtException ==
  /\ proc.pc = "running"
  /\ ShutdownFrom("contexts", 1, "exception")
  /\ UNCHANGED <<now, launched, openBrowsers, ctxOwner, openContexts, deaths, started, calls>>
  /\ UNCHANGED <<jars, issued, reqs, dev, inter, find, plan, ready, nav, tabs, crawl>>

\* contextData.context.close() resolved or was caught
ShutdownContextClosed ==
  /\ proc.pc = "contexts"
  /\ openContexts' = openContexts \ {contextPool[proc.i].context}
  /\ ShutdownFrom("contexts", proc.i + 1, proc.cause)
  /\ UNCHANGED <<now, launched, openBrowsers, ctxOwner, deaths, started, calls>>
  /\ UNCHANGED <<jars, issued, reqs, dev, inter, find, plan, ready, nav, tabs, crawl>>

\* browserData.browser.close() resolved or was caught
ShutdownBrowserClosed ==
  /\ proc.pc = "browsers"
  /\ openBrowsers' = openBrowsers \ {browserPool[proc.i].browser}
  /\ openContexts' = openContexts \ ClosedWith({browserPool[proc.i].browser})
  /\ ShutdownFrom("browsers", proc.i + 1, proc.cause)
  /\ UNCHANGED <<now, launched, ctxOwner, deaths, started, calls>>
  /\ UNCHANGED <<jars, issued, reqs, dev, inter, find, plan, ready, nav, tabs, crawl>>

\* SIGINT / SIGTERM: the listeners run in the order they were registered.
\* The module's async handler runs shutdown up to its first await; then the
\* listener that start() registered calls process.exit(0)
Signal ==
  /\ proc.pc # "exited"
  /\ LET done == proc.pc = "running" /\ contextPool = <<>> /\ browserPool = <<>>
     IN /\ proc' = [pc |-> "exited", i |-> 0, timer |-> FALSE, cause |-> "signal",
                    complete |-> done]
        /\ sessionCache' = IF done THEN [k \in SessionKeys |-> NoSession] ELSE sessionCache
  /\ UNCHANGED <<now, poolVars>>
  /\ UNCHANGED <<jars, issued, reqs, dev, inter, find, plan, ready, nav, tabs, crawl>>

ProcInit == proc = ProcRunning

\* the state after the constructor: empty pools, empty cache, no request
McpInit ==
  /\ sessionCache = [k \in SessionKeys |-> NoSession]
  /\ jars = [u \in Users |-> [cookies |-> 0, storage |-> 0]]
  /\ issued = 0
  /\ reqs = [r \in Reqs |-> IdleReq]

Init == PoolInit /\ McpInit /\ DevInit /\ InterInit /\ FindInit /\ PlanInit /\ ReadyInit /\ NavInit
        /\ TabsInit /\ CrawlInit /\ ProcInit

PoolNext ==
  \/ \E c \in Callers, k \in CallableKeys : GetBrowserInstance(c, k)
  \/ \E c \in Callers : ProbeBrowserAlive(c)
  \/ \E c \in Callers : ProbeBrowserDead(c)
  \/ \E c \in Callers : LaunchDone(c)
  \/ CleanupExpiredSessions
  \/ \E b \in 1..MaxLaunch : BrowserDies(b)
  \/ PoolTick

SpecPool == Init /\ [][PoolNext]_vars

\* handleToolsCall: getBrowserInstance() with its default key
DefaultKey == 1

\* handleToolsCall: the browser that getBrowserInstance returned is passed to
\* getBrowserContext
AcquireContext(c, key) ==
  /\ calls[c].pc = "done"
  /\ calls[c].op = "browser"
  /\ GetBrowserContext(c, calls[c].ret, key)

\* handleToolsCall: a request begins with getBrowserInstance()
AcquireBrowser(c) ==
  /\ calls[c].pc = "idle"
  /\ GetBrowserInstance(c, DefaultKey)

\* handleToolsCall: the request closes its page and responds, or an
\* acquisition threw and the catch responds; nothing is told to the pools
ReleaseCall(c) ==
  /\ calls[c].pc = "done"
  /\ calls' = [calls EXCEPT ![c] = IdleCall]
  /\ UNCHANGED <<now, browserPool, contextPool, launched, openBrowsers, ctxOwner,
                 openContexts, deaths, started>>
  /\ UNCHANGED <<mcpVars, dev, engineVars>>

\* the acquisitions of concurrent requests, the sweep, browser deaths and
\* the clock
CtxNext ==
  \/ \E c \in Callers : AcquireBrowser(c)
  \/ \E c \in Callers : ReleaseCall(c)
  \/ \E c \in Callers : ProbeBrowserAlive(c)
  \/ \E c \in Callers : ProbeBrowserDead(c)
  \/ \E c \in Callers : LaunchDone(c)
  \/ \E c \in Callers, k \in CtxKeys : AcquireContext(c, k)
  \/ \E c \in Callers : ProbeContextAlive(c)
  \/ \E c \in Callers : ProbeContextDead(c)
  \/ \E c \in Callers : NewContextDone(c)
  \/ \E c \in Callers : NewContextThrows(c)
  \/ CleanupExpiredSessions
  \/ \E b \in 1..MaxLaunch : BrowserDies(b)
  \/ PoolTick

SpecCtx == Init /\ [][CtxNext]_vars

\* navigate runs on: each of its awaits resolves or rejects
SpecNavLive == Init /\ [][NavNext]_vars /\ WF_vars(NavStep)

\* the requests and the sweep of a running server, and its shutdown
DownNext ==
  \/ \E c \in Callers : proc.pc = "running" /\ AcquireBrowser(c)
  \/ \E c \in Callers : proc.pc = "running" /\ ReleaseCall(c)
  \/ \E c \in Callers : proc.pc = "running" /\ ProbeBrowserAlive(c)
  \/ \E c \in Callers : proc.pc = "running" /\ LaunchDone(c)
  \/ \E c \in Callers, k \in CtxKeys : proc.pc = "running" /\ AcquireContext(c, k)
  \/ \E c \in Callers : proc.pc = "running" /\ ProbeContextAlive(c)
  \/ \E c \in Callers : proc.pc = "running" /\ NewContextDone(c)
  \/ proc.timer /\ proc.pc = "running" /\ CleanupExpiredSessions
  \/ proc.pc = "running" /\ PoolTick
  \/ UncaughtException
  \/ ShutdownContextClosed
  \/ ShutdownBrowserClosed
  \/ Signal

SpecDown == Init /\ [][DownNext]_vars

\* screenshotPage runs on: each of its awaits resolves or rejects
SpecDevLive == Init /\ [][DevNext]_vars /\ WF_vars(DevNext)

SpecCrawl == Init /\ [][CrawlNext]_vars

SpecTabs == Init /\ [][TabsNext]_vars


McpNext ==
  \/ \E r \in Reqs, u \in CallableUsers : StartRequest(r, u)
  \/ \E r \in Reqs, p \in Pages : NavDone(r, p)
  \/ \E r \in Reqs, p \in Pages : RestoreOk(r, p)
  \/ \E r \in Reqs : RestoreStillLogin(r)
  \/ \E r \in Reqs, p \in Pages : RestoreThrows(r, p)
  \/ \E r \in Reqs : FormMissing(r)
  \/ \E r \in Reqs : FormSubmit(r)
  \/ \E r \in Reqs, p \in Pages, n \in BOOLEAN, e \in BOOLEAN : SubmitOutcome(r, p, n, e)
  \/ \E r \in Reqs : CacheWrite(r)
  \/ \E r \in Reqs : CacheReadThrows(r)
  \/ \E r \in Reqs, p \in Pages : PostLoginReady(r, p)
  \/ \E r \in Reqs, p \in Pages : RenavDone(r, p)
  \/ \E r \in Reqs : FailShotDone(r)
  \/ \E r \in Reqs : DiagDone(r)
  \/ \E r \in Reqs : CaptureDone(r)
  \/ \E r \in Reqs, t \in BOOLEAN : CaptureThrows(r, t)
  \/ \E r \in Reqs : NavThrows(r)
  \/ CleanupExpiredSessions
  \/ McpTick

SpecMcp == Init /\ [][McpNext]_vars

SpecDev == Init /\ [][DevNext]_vars

SpecInter == Init /\ [][InterNext]_vars

SpecFind == Init /\ [][FindNext]_vars

\* every wait of the cascade has a timeout (5000 ms, 3000 ms): a pending
\* strategy always ends
SpecFindLive == Init /\ [][FindNext]_vars /\ WF_vars(FindStep)

SpecScroll == Init /\ [][ScrollNext]_vars

SpecReady == Init /\ [][ReadyNext]_vars

SpecNav == Init /\ [][NavNext]_vars

(***************************************************************************)
(* Properties of the browser pool                                          *)
(***************************************************************************)
\* C1: in every reachable state the browser pool holds at most maxPoolSize
\* entries, whatever calls are suspended in the launch.
C1_PoolWithinCap == Len(browserPool) <= maxPoolSize

\* the key has an entry whose browser is running
LiveEntry(k) == MapHas(browserPool, k) /\ MapGet(browserPool, k).browser \in openBrowsers

\* the call of c completed in this step by reassigning an entry of least
\* lastUsed: its browser is returned, its lastUsed is refreshed, nothing is
\* launched and the pool holds the same keys
Reassigned(c) ==
  /\ calls'[c].pc = "done"
  /\ launched' = launched
  /\ Len(browserPool') = Len(browserPool)
  /\ MapKeys(browserPool') = MapKeys(browserPool)
  /\ \E i \in 1..Len(browserPool) :
       /\ \A j \in 1..Len(browserPool) : browserPool[i].lastUsed <= browserPool[j].lastUsed
       /\ calls'[c].ret = browserPool[i].browser
       /\ browserPool'[i] = [browserPool[i] EXCEPT !.lastUsed = now]
       /\ \A j \in 1..Len(browserPool) : j # i => browserPool'[j] = browserPool[j]

\* C2 as stated: a call that finds the pool at its cap and no live entry under
\* its key (none at all, or one whose probe fails) completes by reassignment.
C2_AtCapNoLiveEntryReassigns ==
  [][\A c \in Callers :
       ( /\ AtPoolLimit(browserPool)
         /\ \/ ProbeBrowserDead(c)
            \/ \E k \in Keys : ~MapHas(browserPool, k) /\ GetBrowserInstance(c, k) )
       => Reassigned(c)]_vars

\* C2 amended: a call that finds the pool at its cap and no entry at all under
\* its key completes in the same step by reassignment.
C2_AtCapNoEntryReassigns ==
  [][\A c \in Callers, k \in Keys :
       (AtPoolLimit(browserPool) /\ ~MapHas(browserPool, k) /\ GetBrowserInstance(c, k))
       => Reassigned(c)]_vars

\* a call has completed by reassignment with the pool at its cap and no entry
\* under the requested key
C2_Witness ==
  \E c \in Callers :
    /\ calls[c].pc = "done" /\ calls[c].how = "reassigned"
    /\ ~MapHas(browserPool, calls[c].key)
    /\ Len(browserPool) >= maxPoolSize

\* C3 (browser pool): a probe that succeeds returns the probed browser and
\* launches nothing; a probe that fails removes the entry and goes on to the
\* launch, whose browser is stored under the key and returned.
C3_ProbeReuseOrRecreate ==
  [][\A c \in Callers :
       /\ ProbeBrowserAlive(c) =>
            /\ calls'[c].pc = "done" /\ calls'[c].ret = calls[c].ent
            /\ launched' = launched
            /\ \A i \in 1..Len(browserPool') :
                 browserPool'[i].browser = calls[c].ent => browserPool'[i].lastUsed = now
       /\ ProbeBrowserDead(c) =>
            /\ ~MapHas(browserPool', calls[c].key)
            /\ calls'[c].pc = "launch"
       /\ LaunchDone(c) =>
            /\ calls'[c].pc = "done" /\ calls'[c].ret \notin 1..launched
            /\ MapGet(browserPool', calls[c].key).browser = calls'[c].ret]_vars

(***************************************************************************)
(* Properties of the session cache and of the login                        *)
(***************************************************************************)
\* the session key of request r
KeyOf(r) == SessionKey(Domain, UserName(reqs[r].user))

\* request r enters handleLoginWithCache in this step
EntersLogin(r) ==
  /\ reqs[r].pc \in {"goto", "postLogin"}
  /\ reqs'[r].pc \in {"restore", "form"}

\* C4: the lookup made on entry to handleLoginWithCache returns a session only
\* when the cache holds an entry for the request's (domain, principal) whose
\* age is strictly below sessionTTL, and returns that entry; when the entry's
\* age has reached sessionTTL nothing is returned, the entry is dropped and the
\* login goes to the form.
C4_CachedOnlyWhileFresh ==
  [][\A r \in Reqs :
       EntersLogin(r) =>
         LET e == sessionCache[KeyOf(r)]
         IN /\ reqs'[r].pc = "restore" =>
                 /\ e # NoSession
                 /\ now - e.timestamp < sessionTTL
                 /\ reqs'[r].cached = e
            /\ (e # NoSession /\ now - e.timestamp >= sessionTTL) =>
                 /\ reqs'[r].pc = "form"
                 /\ reqs'[r].cached = NoSession
                 /\ sessionCache'[KeyOf(r)] = NoSession]_vars

\* a login found its cached session expired and is at the form
C4_Witness ==
  \E r \in Reqs : reqs[r].pc = "form" /\ reqs[r].lookup = "expired" /\ reqs[r].forms = 0

\* request r leaves the restore of a cached session in this step
LeavesRestore(r) == reqs[r].pc = "restore" /\ reqs'[r].pc # "restore"

\* handleLoginWithCache of request r returned true on the restored session:
\* the jar holds exactly the cached cookies and storage, no form was filled
RestoredWithoutForm(r) ==
  /\ reqs'[r].pc \in {"postLogin", "renav"}
  /\ reqs'[r].via = "restored"
  /\ reqs'[r].forms = reqs[r].forms
  /\ jars'[reqs[r].user].cookies = reqs[r].cached.cookies
  /\ jars'[reqs[r].user].storage = reqs[r].cached.storage

\* a login entered while the cache holds a fresh entry for its pair takes
\* that entry to restore
FreshEntryIsTaken(r) ==
  LET e == sessionCache[KeyOf(r)]
  IN (EntersLogin(r) /\ e # NoSession /\ now - e.timestamp < sessionTTL) =>
       (reqs'[r].pc = "restore" /\ reqs'[r].cached = e)

\* C5 as stated: a login handled while a fresh entry is cached for its pair
\* restores exactly the cached cookies and storage and ends authenticated
\* without the form.
C5_RoundTripAlways ==
  [][\A r \in Reqs :
       /\ FreshEntryIsTaken(r)
       /\ LeavesRestore(r) => RestoredWithoutForm(r)]_vars

\* C5: a login handled while a fresh entry is cached for its pair takes that
\* entry, and when the reload that follows the restore completes on a
\* non-login URL the login ends authenticated on exactly the cached cookies
\* and storage without the form being filled.
C5_RoundTripWhenReloadLeavesLogin ==
  [][\A r \in Reqs :
       /\ FreshEntryIsTaken(r)
       /\ (\E p \in Pages : RestoreOk(r, p)) => RestoredWithoutForm(r)]_vars

\* a request went on authenticated from a restored session, form untouched
C5_Witness ==
  \E r \in Reqs :
    /\ reqs[r].via = "restored"
    /\ reqs[r].forms = 0
    /\ reqs[r].pc \in {"postLogin", "renav"}
    /\ jars[reqs[r].user].cookies > 0
    /\ now > 0

\* C7: a request whose login went through the form reaches the capture of
\* its top, scroll and full-page screenshots only from the navigation back to
\* the requested URL, and never reaches the login_required diagnostic.
C7_RenavigatesBeforeCapture ==
  [][\A r \in Reqs :
       /\ (reqs'[r].via = "form" /\ reqs'[r].pc = "capture" /\ reqs[r].pc # "capture")
            => reqs[r].pc = "renav"
       /\ (reqs'[r].via = "form" /\ reqs'[r].pc = "diag")
            => reqs'[r].status # "login_required"]_vars

\* the login of request r is reported failed in this step
LoginFails(r) ==
  /\ reqs[r].pc \in {"form", "submitted"}
  /\ reqs'[r].pc \in {"responded", "failshot"}

\* C8: after the submit the login is reported failed exactly when the page
\* is on a login-like URL or shows error text, whether or not a navigation
\* was observed.
C8_VerdictFollowsPageState ==
  [][\A r \in Reqs, p \in Pages, n \in BOOLEAN, e \in BOOLEAN :
       SubmitOutcome(r, p, n, e) =>
         (LoginFails(r) <=> (IsLoginUrl(p.url) \/ e))]_vars

\* the cookies and storage of request r's session are in the cache under its
\* key in the next state, and a lookup returns them
StoredInCache(r) ==
  LET jar == jars[reqs[r].user]
      e == [cookies |-> jar.cookies, storage |-> jar.storage, timestamp |-> now]
  IN /\ sessionCache'[KeyOf(r)] = e
     /\ GetCachedSession(sessionCache', KeyOf(r)) = e

\* C9 as stated: every successful form login leaves the session in the cache
\* before the request goes on; a failed login leaves the cache as it was.
C9_SuccessAlwaysCached ==
  [][\A r \in Reqs :
       /\ (reqs[r].pc = "cacheRead" /\ reqs'[r].pc # "cacheRead") => StoredInCache(r)
       /\ LoginFails(r) => sessionCache' = sessionCache]_vars

\* C9: a successful form login whose cookies and storage are read without
\* error leaves them in the cache under the request's key, stamped now, so
\* that a lookup returns them; a failed login leaves the cache as it was.
C9_SuccessCachedWhenRead ==
  [][\A r \in Reqs :
       /\ CacheWrite(r) => StoredInCache(r)
       /\ LoginFails(r) => sessionCache' = sessionCache]_vars

\* a request went on from a form login with its session in the cache
C9_Witness ==
  \E r \in Reqs :
    /\ reqs[r].via = "form"
    /\ reqs[r].pc \in {"postLogin", "renav"}
    /\ now > 0
    /\ sessionCache[KeyOf(r)] =
         [cookies |-> jars[reqs[r].user].cookies, storage |-> jars[reqs[r].user].storage,
          timestamp |-> now]

\* C10: a restored session is taken as authenticated only on a page that
\* shows a session indicator and is not a login page.
C10_AuthenticatedNeedsIndicator ==
  [][\A r \in Reqs :
       (LeavesRestore(r) /\ reqs'[r].via = "restored" /\ reqs'[r].pc \in {"postLogin", "renav"})
         => (HasSessionIndicator(reqs'[r].page) /\ ~IsLoginUrl(reqs'[r].page.url))]_vars

\* C6: no request fills and submits the login form more than once, in the
\* request handler and in the page capture with tab detection alike.
C6_AtMostOneFormLogin ==
  /\ \A r \in Reqs : reqs[r].forms <= 1
  /\ dev.forms <= 1

\* C11: when the restore of a cached session fails (the reload stays on a
\* login page, or the restore throws) the entry of the request's (domain,
\* principal) is out of the session cache when the restore ends.
C11_FailedRestoreInvalidates ==
  [][\A r \in Reqs :
       (LeavesRestore(r) /\ reqs'[r].pc = "form")
         => sessionCache'[KeyOf(r)] = NoSession]_vars

\* C12: once a login with the supplied credentials has failed, no top, scroll
\* or full-page screenshot is taken: the request handler answers with the
\* failure, and the page capture of DevScreenshotTool ends without
\* screenshots.
C12_FailedLoginStopsCapture ==
  /\ \A r \in Reqs :
       reqs[r].reason = "login" =>
         /\ reqs[r].status = "error"
         /\ \A i \in 1..Len(reqs[r].shots) : reqs[r].shots[i].kind \notin {"top", "full"}
  /\ dev.failed => dev.shots = <<>>

\* request r leaves page.goto in this step, without credentials, redirected
\* to a login page
RedirectedToLoginWithoutCredentials(r) ==
  /\ reqs[r].pc = "goto"
  /\ reqs[r].user = NoUser
  /\ reqs'[r].pc \notin {"goto", "responded"}
  /\ WasRedirected(reqs'[r].page.url, RequestedUrl)
  /\ IsLoginUrl(reqs'[r].page.url)

C14_AbortReturnsArtifacts ==
  \A r \in Reqs :
    (reqs[r].pc = "responded" /\ reqs[r].status = "error") =>
      (reqs[r].reason # "none" /\ reqs[r].resp = reqs[r].shots)

(***************************************************************************)
(* Properties of performInteractions                                       *)
(***************************************************************************)
\* the returned screenshots hold the error screenshot of step i
HasErrorShot(i) ==
  \E k \in 1..Len(inter.shots) :
    inter.shots[k] = StepShot("error", i, inter.list[i].action)

\* the returned screenshots hold nothing of step i
HasNoShot(i) == \A k \in 1..Len(inter.shots) : inter.shots[k].step # i

\* every step of the list was attempted, in list order
AllStepsAttempted ==
  /\ Len(inter.log) = Len(inter.list)
  /\ \A k \in 1..Len(inter.shots) : \A j \in 1..(k - 1) :
       inter.shots[j].step < inter.shots[k].step

\* C15 as stated: every step is attempted in list order, and every step that
\* failed has its error screenshot in the result.
C15_FailedStepAlwaysTagged ==
  inter.pc = "returned" =>
    /\ AllStepsAttempted
    /\ \A i \in 1..Len(inter.list) :
         inter.log[i] \in {"failed", "failed_noshot"} => HasErrorShot(i)

\* C15: every step is attempted in list order whatever the earlier steps did,
\* and a step that failed has its error screenshot in the result when that
\* screenshot could be taken and nothing in the result when it could not.
C15_FailedStepTaggedWhenShotTaken ==
  inter.pc = "returned" =>
    /\ AllStepsAttempted
    /\ \A i \in 1..Len(inter.list) :
         /\ inter.log[i] = "failed" => HasErrorShot(i)
         /\ inter.log[i] = "failed_noshot" => HasNoShot(i)

\* a click that failed was followed by a wait that was carried out
C15_Witness ==
  /\ inter.pc = "returned"
  /\ Len(inter.list) = 2
  /\ inter.list[1].action = "click"
  /\ inter.list[2].action = "wait"
  /\ inter.log = <<"failed", "waited">>
  /\ inter.shots = <<StepShot("error", 1, "click")>>

(***************************************************************************)
(* Properties of findElement                                               *)
(***************************************************************************)
RECURSIVE ApplicableRange(_, _, _)
\* the positions k..n whose strategy applies to q, in increasing order
ApplicableRange(q, k, n) ==
  IF k > n THEN <<>>
  ELSE IF Applicable(q, k) THEN <<k>> \o ApplicableRange(q, k + 1, n)
  ELSE ApplicableRange(q, k + 1, n)

\* the position of the strategy that found the element
Winner == find.tried[Len(find.tried)]

\* C16 as stated: when the strategy at position k finds the element, every
\* position 1..k-1 was tried before it, in order, and failed.
C16_AllEarlierStrategiesTried ==
  find.pc = "found" => find.tried = [j \in 1..Winner |-> j]

\* C16: when the strategy at position k finds the element, every position
\* 1..k-1 whose strategy applies to the interaction was tried before it, in
\* the fixed order of the cascade, and failed; the positions whose strategy
\* does not apply were passed over.
C16_ApplicableEarlierStrategiesTried ==
  find.pc = "found" => find.tried = ApplicableRange(find.q, 1, Winner)

\* a selector-fix strategy found the element after semantic strategies were
\* passed over
C16_Witness ==
  /\ find.pc = "found"
  /\ Winner > 1 + SemanticCount
  /\ Len(find.tried) < Winner
  /\ Len(find.tried) > 2

\* C17: findElement ends with the not-found error exactly when every
\* strategy that applies has been tried without a match, whether the
\* strategies timed out or threw, and a call of findElement always ends.
C17_FailsOnlyWhenExhausted ==
  /\ [](find.pc = "notfound" <=>
          (find.pc \notin {"idle", "found"}
             /\ find.tried = ApplicableRange(find.q, 1, NStrategies)))
  /\ (find.pc = "waiting" ~> find.pc \in {"found", "notfound"})

\* the cascade ran to its end although strategies threw on the way
C17_Witness ==
  /\ find.pc = "notfound"
  /\ find.threw
  /\ Len(find.tried) > 2

(***************************************************************************)
(* Properties of the scroll screenshots                                    *)
(***************************************************************************)
\* the scroll extent of the element that the steps of the plan scroll
RootExtent ==
  IF maxScroll(plan.pageInfo) > scrollThreshold THEN maxScroll(plan.pageInfo)
  ELSE CASE plan.target.kind = "first" -> containerMaxScroll(plan.pageInfo)
         [] plan.target.kind = "other" -> plan.target.extent
         [] plan.target.kind = "window" -> Max(maxScroll(plan.pageInfo), 0)
         [] OTHER -> 0

\* the offsets of the scroll screenshots taken so far
Offsets == [i \in 1..Len(plan.shots) |-> plan.shots[i].currentScroll]

\* C18: for every window extent and container extent, with step 800 and cap
\* 10, the offsets of the scroll screenshots are strictly increasing and the
\* last one does not exceed the scroll extent of the element scrolled.
C18_OffsetsIncreaseWithinExtent ==
  /\ \A i \in 1..(Len(Offsets) - 1) : Offsets[i] < Offsets[i + 1]
  /\ Offsets # <<>> => Offsets[Len(Offsets)] <= RootExtent

\* C19: the number of scroll steps planned is min(ceil(extent / step),
\* cap - 1) for the extent of the scroll root of the plan (the window when
\* its extent exceeds the threshold, else the first container), and with the
\* top frame there are never more than cap scroll screenshots.
C19_StepsFromRootExtent ==
  LET info == plan.pageInfo
      extent == IF maxScroll(info) > scrollThreshold THEN maxScroll(info)
                ELSE IF hasScrollableContainers(info)
                       THEN containerMaxScroll(info) ELSE 0
  IN plan.pc # "idle" =>
       /\ plan.total = Min(Ceil(extent, scrollStep), maxScrollScreenshots - 1)
       /\ 1 + Len(plan.shots) <= maxScrollScreenshots

\* C20: a window extent above 100 makes every step scroll the window;
\* otherwise, when a qualifying container exists, every step scrolls the
\* first qualifying container, the element whose extent was measured;
\* otherwise no step is taken.
C20_RootSelection ==
  LET info == plan.pageInfo
  IN plan.pc # "idle" =>
       IF maxScroll(info) > scrollThreshold
         THEN \A i \in 1..Len(plan.shots) : plan.shots[i].root = "window"
         ELSE IF hasScrollableContainers(info)
                THEN \A i \in 1..Len(plan.shots) : plan.shots[i].root = "first"
                ELSE plan.total = 0 /\ plan.shots = <<>>

(***************************************************************************)
(* Properties of the order of the scroll and full-page screenshots         *)
(***************************************************************************)
\* the page of the scenario: document height 4000, viewport height 1000, no
\* scrollable container
ScenarioPage ==
  /\ plan.pageInfo.windowScrollHeight = 4000
  /\ plan.pageInfo.viewportHeight = 1000
  /\ plan.pageInfo.scrollableContainers = <<>>

\* C21: with scroll screenshots and full page enabled the artifacts are the
\* top frame, then the scroll steps in increasing step order, then the single
\* full-page artifact; for document height 4000, viewport height 1000 and
\* step 800 they are top, the steps targeting 800, 1600, 2400 and 3200 px,
\* the last clamped to the extent 3000, and the full page.
C21_TopStepsThenFullPage ==
  LET a == plan.artifacts
      n == Len(a)
  IN /\ plan.pc # "idle" =>
          /\ a[1].kind = "top"
          /\ \A i \in 2..n : a[i].kind = "scroll" => a[i].index = i - 1
          /\ \A i \in 2..n : a[i].kind = "fullpage" => i = n /\ plan.pc = "done"
          /\ \A i \in 2..n : a[i].kind # "top"
     /\ (plan.pc = "done" /\ plan.fullPage) => a[n].kind = "fullpage"
     /\ (plan.pc = "done" /\ plan.fullPage /\ ScenarioPage) =>
          a = <<ScrollArtifact("top", 0, 0),
                ScrollArtifact("scroll", 1, 800),
                ScrollArtifact("scroll", 2, 1600),
                ScrollArtifact("scroll", 3, 2400),
                ScrollArtifact("scroll", 4, 3000),
                ScrollArtifact("fullpage", 0, 0)>>

\* the capture of the scenario page is complete
C21_Witness ==
  /\ plan.pc = "done"
  /\ plan.fullPage
  /\ ScenarioPage
  /\ Len(plan.artifacts) = 6

\* C30 as stated: when the full-page artifact is captured, the root that the
\* steps scrolled, window or container, is at offset 0.
C30_RootAtOriginForFullPage ==
  (plan.pc = "done" /\ plan.fullPage) => plan.winY = 0 /\ plan.elY = 0

(***************************************************************************)
(* Properties of waitForContent                                            *)
(***************************************************************************)
\* C22: waitForContent never throws and returns within its ceiling, in
\* every mode and page state, also when a check times out or a call into
\* the page fails because the page is navigating or closed.
C22_NeverThrowsWithinCeiling ==
  /\ ready.pc # "threw"
  /\ ready.pc = "returned" =>
       ready.raceEnd <= Ceiling(ready.fastMode, ready.isDataHeavyPage)

\* the checks that the race waits on: awaited and not fulfilled from the start
WaitedOn ==
  {c \in AwaitedChecks(ready.fastMode, ready.isDataHeavyPage) :
     IsRealCheck(c, ready.isDataHeavyPage, ready.isInteractivePage)}

\* C29: the checks waited on and the ceiling are a function of fastMode,
\* dataHeavy and interactive: fast mode waits on basic content and no
\* loading indicator with the shortest ceiling, whatever the page type;
\* otherwise a data-heavy page adds the chart/table check and has the longest
\* ceiling; otherwise the interactive-controls check is added exactly when
\* the page is interactive; and a check that timed out counts as satisfied,
\* so the race ends before the ceiling once every check waited on is settled.
C29_ChecksFollowModeAndPage ==
  ready.pc \in {"race", "final", "returned"} =>
    /\ WaitedOn =
         {"basicContent", "noLoading"}
           \cup (IF ~ready.fastMode /\ ready.isDataHeavyPage
                   THEN {"dataElements"} ELSE {})
           \cup (IF ~ready.fastMode /\ ~ready.isDataHeavyPage /\ ready.isInteractivePage
                   THEN {"interactiveElements"} ELSE {})
    /\ Ceiling(TRUE, ready.isDataHeavyPage) < Ceiling(FALSE, FALSE)
    /\ Ceiling(FALSE, FALSE) < Ceiling(FALSE, TRUE)
    /\ ready.pc \in {"final", "returned"} =>
         \/ ready.raceEnd = Ceiling(ready.fastMode, ready.isDataHeavyPage)
         \/ \A c \in WaitedOn : ready.checks[c] \in {"ok", "timeout", "error"}
    /\ (ready.pc = "race" /\ \A c \in WaitedOn : ready.checks[c] # "pending") =>
         PendingAwaited = {}

\* a data-heavy page in normal mode returned before the ceiling although a
\* check had timed out
C29_Witness ==
  /\ ready.pc = "returned"
  /\ ~ready.fastMode /\ ready.isDataHeavyPage /\ ready.isInteractivePage
  /\ ready.checks["basicContent"] = "timeout"
  /\ ready.checks["dataElements"] = "ok"
  /\ ready.checks["interactiveElements"] = "pending"
  /\ ready.raceEnd < Ceiling(ready.fastMode, ready.isDataHeavyPage)

(***************************************************************************)
(* Properties of the tab detection of DevScreenshotTool                    *)
(***************************************************************************)
\* C23: when the analysis call of the AI-assisted strategy throws or returns
\* unparseable output, detectAndHandleTabs is run on the page in its place
\* and the capture still completes.
C23_FailedAnalysisFallsBackToHeuristic ==
  (dev.aiFailed /\ dev.pc \in {"scroll", "done"}) => dev.heuristic

C25_ScrollToPositionNeedsNoElement ==
  \A i \in 1..Len(inter.log) :
    (inter.list[i] = ScrollToPosition /\ ~inter.found[i]) =>
      inter.log[i] = "ok" /\ i \in inter.winScrolls

(***************************************************************************)
(* Properties of the names of the screenshots                              *)
(***************************************************************************)
\* C26: within one request no two returned screenshots have the same name,
\* whatever the URLs and depths of the pages of the navigation flow.
C26_NamesUnique ==
  \A i, j \in 1..Len(nav.screenshots) :
    i # j => nav.screenshots[i] # nav.screenshots[j]

(***************************************************************************)
(* Properties of the sweep and of the context pool                         *)
(***************************************************************************)
\* the entries of pool m that are within the idle timeout
WithinTimeout(m) == {m[i] : i \in {j \in 1..Len(m) : now - m[j].lastUsed <= browserTTL}}

\* the entries of pool m
Entries(m) == {m[i] : i \in 1..Len(m)}

\* C27: after a sweep no session older than the TTL and no browser or
\* context idle longer than the timeout is left in its pool, every removed
\* browser and context is closed, and the entries within their limits are
\* left in place, unmodified and unclosed.
C27_SweepRemovesOnlyExpired ==
  [][CleanupExpiredSessions =>
       /\ \A k \in SessionKeys :
            sessionCache'[k] # NoSession => now - sessionCache'[k].timestamp <= sessionTTL
       /\ Entries(browserPool') = WithinTimeout(browserPool)
       /\ Entries(contextPool') = WithinTimeout(contextPool)
       /\ \A e \in Entries(browserPool) \ Entries(browserPool') : e.browser \notin openBrowsers'
       /\ \A e \in Entries(contextPool) \ Entries(contextPool') : e.context \notin openContexts'
       /\ \A e \in WithinTimeout(browserPool) :
            e.browser \in openBrowsers => e.browser \in openBrowsers'
       /\ \A e \in WithinTimeout(contextPool) :
            e.context \in openContexts => e.context \in openContexts']_vars

\* C28: for every interleaving of getBrowserContext calls, two calls that
\* acquired the same key hold the same context whenever the contexts they
\* were given are both open: no key has two distinct live contexts.
C28_OneLiveContextPerKey ==
  \A c, d \in Callers :
    ( /\ calls[c].op = "context" /\ calls[c].pc = "done"
      /\ calls[d].op = "context" /\ calls[d].pc = "done"
      /\ calls[c].key = calls[d].key
      /\ calls[c].ret \in openContexts /\ calls[d].ret \in openContexts )
    => calls[c].ret = calls[d].ret

(***************************************************************************)
(* Properties of the handle that findElement returns                       *)
(***************************************************************************)
\* C31: whenever findElement returns, the locator it returns designates
\* exactly one element; a strategy whose selector matches several elements
\* is not a success.
C31_ReturnsExactlyOneElement ==
  find.pc = "found" => find.matches = "one"

(***************************************************************************)
(* Properties of the tab loops                                             *)
(***************************************************************************)
\* the click strategies of a region in the order primary selector, fallback
\* selector, coordinates
ClickOrder(t) ==
  <<"primary">> \o (IF t.fallback THEN <<"fallback">> ELSE <<>>)
                \o (IF t.rect THEN <<"coordinates">> ELSE <<>>)

IsPrefix(a, b) == Len(a) <= Len(b) /\ a = SubSeq(b, 1, Len(a))

\* the regions whose click succeeded
Clicked == {r \in 1..Len(tabs.results) : tabs.results[r].outcome # "click failed"}

\* C32: for every region the click is tried by primary selector, fallback
\* selector, coordinates in this order, stopping at the first success; when
\* all fail, an error record is added for the region and the remaining
\* regions are still processed; at most maxTabsPerPage tabs are clicked.
C32_ClickCascadePerTabWithinCap ==
  tabs.pc # "idle" =>
    /\ \A j \in 1..Len(tabs.regions) : IsPrefix(tabs.attempts[j], ClickOrder(tabs.regions[j]))
    /\ \A r \in 1..Len(tabs.results) :
         /\ tabs.results[r].tab_index = r
         /\ tabs.results[r].outcome = "click failed"
              => tabs.attempts[r] = ClickOrder(tabs.regions[r])
    /\ tabs.pc = "done" => Len(tabs.results) = Len(tabs.regions)
    /\ Cardinality(Clicked) <= tabs.cap

(***************************************************************************)
(* Properties of the navigation flow                                       *)
(***************************************************************************)
\* C33: navigatePages terminates, and it never navigates to a URL that
\* matches an exclude pattern, to a URL already visited in this request, or
\* to a URL at a depth greater than the requested maxDepth (2 when none is
\* given, 0 meaning the start page only); from each page it calls navigate
\* on at most five links.
C33_NavigationBoundedAndFiltered ==
  /\ [][\A u \in Urls :
          (NavFollow(u) \/ \E l \in BOOLEAN : NavFollowFails(u, l)) =>
            /\ ~Excluded(u, nav.excludePatterns)
            /\ u \notin nav.visitedUrls
            /\ Len(nav.stack) <= maxDepthAsRequested(nav.requested)]_vars
  /\ [](\A k \in 1..Len(nav.called) : nav.called[k] <= LinkLimit)
  /\ [](\A u \in nav.visitedUrls : ~Excluded(u, nav.excludePatterns))
  /\ (nav.pc = "navigate" ~> nav.pc \in {"returned", "responded"})

(***************************************************************************)
(* Properties of the crawl                                                 *)
(***************************************************************************)
\* C34: during a crawl no page is passed to screenshotPage twice, however
\* its URL was spelled when first given (with or without trailing slash or
\* fragment); the visited URLs never exceed maxPages and all are on the host
\* of the start URL.
C34_NoPageCapturedTwice ==
  crawl.pc # "idle" =>
    /\ \A i, j \in 1..Len(crawl.captured) :
         i # j => CrawlPage(crawl.captured[i]) # CrawlPage(crawl.captured[j])
    /\ Cardinality(crawl.visitedUrls) <= crawl.maxPages
    /\ \A u \in crawl.visitedUrls : u.host = crawl.captured[1].host

(***************************************************************************)
(* Properties of the pooled resources of requests in flight                *)
(***************************************************************************)
\* the browser and the context that the request of caller c has acquired
\* and not yet released
HeldBrowsers(c) ==
  IF calls[c].op = "browser" /\ calls[c].pc = "done" THEN {calls[c].ret}
  ELSE IF calls[c].op = "context" /\ calls[c].pc # "idle" THEN {calls[c].arg}
  ELSE {}

HeldContexts(c) ==
  IF calls[c].op = "context" /\ calls[c].pc = "done" /\ calls[c].how # "threw"
  THEN {calls[c].ret} ELSE {}

\* C35: the sweep never closes a browser or context that a request in
\* flight has acquired and is still using, however long the request runs.
C35_SweepSparesResourcesInUse ==
  [][CleanupExpiredSessions =>
       \A c \in Callers :
         /\ (HeldBrowsers(c) \cap openBrowsers) \subseteq openBrowsers'
         /\ (HeldContexts(c) \cap openContexts) \subseteq openContexts']_vars

\* C36: at every point each browser launched and each context created by
\* the pool manager is referenced by a pool entry or has been closed, also
\* when two requests acquire the same key concurrently and both miss.
C36_NothingLeaked ==
  /\ \A b \in openBrowsers : \E i \in 1..Len(browserPool) : browserPool[i].browser = b
  /\ \A x \in openContexts : \E i \in 1..Len(contextPool) : contextPool[i].context = x

\* C37: as long as no browser crashes, every context in the context pool
\* belongs to a browser that is still open, and every context returned by
\* getBrowserContext(browser, ...) belongs to the browser that was passed in.
C37_ContextsBelongToLiveBrowser ==
  deaths = 0 =>
    /\ \A i \in 1..Len(contextPool) : ctxOwner[contextPool[i].context] \in openBrowsers
    /\ \A c \in Callers :
         (calls[c].op = "context" /\ calls[c].pc = "done" /\ calls[c].how # "threw")
           => ctxOwner[calls[c].ret] = calls[c].arg

(***************************************************************************)
(* Properties of the shutdown                                              *)
(***************************************************************************)
\* C38: when the process has exited on SIGINT or SIGTERM, shutdown has run
\* to completion: the sweep timer is stopped and the browser pool, the
\* context pool and the session cache are empty.
C38_SignalShutdownCompletes ==
  (proc.pc = "exited" /\ proc.cause = "signal") =>
    /\ proc.complete
    /\ ~proc.timer
    /\ contextPool = <<>>
    /\ browserPool = <<>>
    /\ \A k \in SessionKeys : sessionCache[k] = NoSession

(***************************************************************************)
(* Properties of the re-analysis after a login                             *)
(***************************************************************************)
\* C39: aiDetectAndHandleTabs terminates for every behaviour of the analysis
\* service and of the page: once the tab detection has begun, it returns to
\* screenshotPage, however often the analysis answers login_required.
C39_TabAnalysisTerminates ==
  dev.pc = "tabs" ~> dev.pc \in {"scroll", "done"}

(***************************************************************************)
(* Properties of the page that is captured after a navigation flow         *)
(***************************************************************************)
\* C40: the top, scroll and full-page screenshots of a request are taken on
\* the page the request was on when its navigation flow began, never on a
\* page reached by following links: when the flow produces no screenshots,
\* the capture that follows still happens on the original page.
C40_CaptureOnOriginalPage ==
  nav.captured # <<>> => nav.captured = nav.origin
====
